---------------------------- MODULE Spec2Model ----------------------------
(***************************************************************************)
(* A model of the CRM front end's page-access gate (usePageAccess.tsx) and *)
(* of the meeting form's time resolution (MeetingModal.tsx).               *)
(*                                                                         *)
(* Conventions.  A nullable value is a sequence of length 0 (null) or 1.   *)
(* A string that the code takes apart (a route) is a sequence of one-      *)
(* character strings.  A JavaScript Date is its instant, in minutes since   *)
(* 2026-01-01T00:00Z.                                                      *)
(***************************************************************************)
EXTENDS Integers, Sequences, FiniteSets, TLC

VARIABLES
    \* ---- page-access gate (usePageAccess.tsx) ----
    permissionsCache,   \* module-level cache: Null or Some([data, timestamp])
    clock,              \* Date.now(), in milliseconds since the model starts
    route,              \* the hook's route argument
    user,               \* useAuth().user is set
    authLoading,        \* useAuth().loading
    userRole,           \* useUserRole().userRole
    roleLoading,        \* useUserRole().loading
    hasAccess,          \* useState<boolean | null>(null)
    loading,            \* useState(true)
    inflight,           \* the fetches awaiting their response, in issue order
    allPerms,           \* the useAllPagePermissions instance
    cleared,            \* history: clearPermissionsCache ran and no lookup since
    ev,                 \* history: what the last step did
    \* ---- route normalization as a pure function ----
    rawRoute,           \* an arbitrary route string
    normOnce,           \* Null, or Some(normalizedRoute(rawRoute))
    normTwice,          \* Null, or Some(normalizedRoute(normalizedRoute(rawRoute)))
    \* ---- meeting form (MeetingModal.tsx) ----
    browserTz,          \* the time zone of the browser the form runs in
    now,                \* new Date() of the render (line 171)
    open,               \* the open prop
    meeting,            \* the meeting prop: Null, or Some(stored meeting)
    timezone,           \* useState("Asia/Kolkata")
    startDate,          \* useState<Date | undefined>: Null or Some(instant); see DateOnly
    startTime,          \* useState("09:00"): "HH:mm" as <<hour, minute>>
    duration,           \* useState("60")
    subject,            \* formData.subject is not empty
    modalLoading,       \* MeetingModal's loading flag
    pendingSave,        \* Null, or Some(meetingData) of the write being awaited
    tzChanges,          \* history: timezone changes since the modal opened
    formEv,             \* history: what the last step of the form did
    \* ---- the start time picker as rendered (MeetingModal.tsx, 195, 487-500) ----
    shown,              \* Null, or Some([slots, view]) of the last render
    \* ---- the duration of a stored meeting as loaded (MeetingModal.tsx, 210-219) ----
    stored,             \* [start, end]: getTime() of the stored instants, in ms
    loaded,             \* Null, or Some(the duration option the form selects)
    \* ---- calendar view and meetings list (MeetingsCalendarView.tsx, Meetings) ----
    meetings,           \* the meetings prop: a sequence of stored meetings
    currentDate,        \* useState(new Date())
    viewMode,           \* useState<'week' | 'day'>('week')
    columns,            \* the day columns of the last render
    listed,             \* the list's derived status of each meeting, last render
    navs,               \* history: previous/next steps since the last "Today"
    \* ---- SecurityProvider (part_000, lines 26-94) ----
    authUser,           \* useAuth().user: Null, or Some([id, object]) of the user object
    secRole,            \* useUserRole().userRole: Null, or Some(role)
    logFn,              \* the identity of useSecurityAudit().logSecurityEvent
    sessionLoggedRef,   \* useRef<string | null>(null)
    visibilityHandlerRef, \* useRef<(() => void) | null>(null)
    listeners,          \* the document's visibilitychange listeners, in order
    hasCleanup,         \* the last effect run returned the cleanup of lines 75-80
    sessionStarts,      \* history: SESSION_START events since user id or role changed
    secSteps,           \* history: changes of the provider's inputs so far
    secEv,              \* history: what the last step of the provider did
    \* ---- the meetings list (part_000, Meetings) ----
    pageMeetings,       \* the meetings state of the page
    dbMeetings,         \* the meetings table of the store
    filteredMeetings,   \* useState<Meeting[]>([])
    selectedMeetings,   \* useState<string[]>([])
    searchTerm,         \* useState("")
    statusFilter,       \* useState<string>("all")
    selEv,              \* history: what the last step of the list did
    \* ---- DealStageForm (DealStageForm.tsx) ----
    stage,              \* the stage prop
    openStages,         \* useState<Record<string, boolean>>: a function on the keys set
    toggles,            \* history: toggleStage calls so far
    stageEv             \* history: what the last step of the stage form did

accessVars == <<permissionsCache, clock, route, user, authLoading, userRole,
                roleLoading, hasAccess, loading, inflight, allPerms, cleared, ev>>
routeVars == <<rawRoute, normOnce, normTwice>>
formVars == <<browserTz, now, open, meeting, timezone, startDate, startTime, duration,
              subject, modalLoading, pendingSave, tzChanges, formEv>>

pickerVars == <<shown>>
loadVars == <<stored, loaded>>
calVars == <<meetings, currentDate, viewMode, columns, listed, navs>>

\* What lies outside each part of the model.
secVars == <<authUser, secRole, logFn, sessionLoggedRef, visibilityHandlerRef, listeners,
             hasCleanup, sessionStarts, secSteps, secEv>>
selVars == <<pageMeetings, dbMeetings, filteredMeetings, selectedMeetings, searchTerm,
             statusFilter, selEv>>
stageVars == <<stage, openStages, toggles, stageEv>>

\* What lies outside each part of the model.
outsideAccess ==
    <<routeVars, formVars, pickerVars, loadVars, calVars,
      secVars, selVars, stageVars>>
outsideRoute ==
    <<accessVars, formVars, pickerVars, loadVars, calVars,
      secVars, selVars, stageVars>>
outsideForm ==
    <<accessVars, routeVars, pickerVars, loadVars, calVars,
      secVars, selVars, stageVars>>
outsidePicker ==
    <<accessVars, routeVars, loadVars, calVars, secVars,
      selVars, stageVars>>
outsideLoad ==
    <<accessVars, routeVars, formVars, pickerVars, calVars,
      secVars, selVars, stageVars>>
outsideCalendar ==
    <<accessVars, routeVars, pickerVars, loadVars, secVars,
      selVars, stageVars>>
outsideSecurity ==
    <<accessVars, routeVars, formVars, pickerVars, loadVars,
      calVars, selVars, stageVars>>
outsideSelection ==
    <<accessVars, routeVars, formVars, pickerVars, loadVars,
      calVars, secVars, stageVars>>
outsideStages ==
    <<accessVars, routeVars, formVars, pickerVars, loadVars,
      calVars, secVars, selVars>>

Null == <<>>
Some(x) == <<x>>
Val(o) == o[1]

(***************************************************************************)
(* Bounds of the model.                                                    *)
(***************************************************************************)
MaxInflight == 2        \* fetches in flight at once
MaxTtlPeriods == 2      \* the clock runs to MaxTtlPeriods * CACHE_TTL
MaxRouteLen == 4        \* length of the route strings normalization is tried on
MaxTzChanges == 1  \* timezone changes while the modal is open
MaxNavs == 2       \* previous/next steps of the calendar away from "Today"

(***************************************************************************)
(* Routes.                                                                 *)
(***************************************************************************)
Slash == "/"
RouteChars == {Slash, "a", "b"}
RootRoute == <<Slash>>
DashboardRoute == <<"/", "d", "a", "s", "h", "b", "o", "a", "r", "d">>
RouteA == <<"/", "a">>
RouteASlash == <<"/", "a", "/">>

\* The route strings of length at most n over RouteChars.
RECURSIVE RouteStrings(_)
RouteStrings(n) ==
    IF n = 0 THEN {<<>>}
    ELSE LET shorter == RouteStrings(n - 1)
         IN  shorter \cup {Append(s, c) : s \in {t \in shorter : Len(t) = n - 1},
                                          c \in RouteChars}

\* route.replace(/\/$/, ''): a single slash at the end of the string is removed.
StripTrailingSlash(r) ==
    IF Len(r) > 0 /\ r[Len(r)] = Slash THEN SubSeq(r, 1, Len(r) - 1) ELSE r

\* A normalization that forgets the root mapping.
normalizedRouteNoRoot(r) == StripTrailingSlash(r)

\* useMemo(() => route === '/' ? '/dashboard' : route.replace(/\/$/, ''))
normalizedRoute(r) == IF r = RootRoute THEN DashboardRoute ELSE StripTrailingSlash(r)

(***************************************************************************)
(* Permission tables.                                                      *)
(***************************************************************************)
Perm(r, a, m, u) ==
    [route |-> r, admin_access |-> a, manager_access |-> m, user_access |-> u]

\* The tables the store is seen to hold.
Tables ==
    { <<>>,
      << Perm(RouteA, TRUE, FALSE, FALSE) >>,
      << Perm(DashboardRoute, FALSE, TRUE, FALSE), Perm(RouteA, FALSE, FALSE, TRUE) >> }

Roles == {"admin", "manager", "user", "none"}   \* "none": null or unrecognized
RawRoutes == {RootRoute, RouteA, RouteASlash}

CACHE_TTL == 5 * 60 * 1000

\* permissions.find(p => p.route === r): the first matching record, or undefined.
Find(permissions, r) ==
    LET hits == {i \in 1..Len(permissions) : permissions[i].route = r}
    IN  IF hits = {} THEN Null
        ELSE Some(permissions[CHOOSE i \in hits : \A j \in hits : i <= j])

\* A switch whose default branch reads the most privileged flag.
RoleFlagDefaultAdmin(p, role) ==
    CASE role = "manager" -> p.manager_access
      [] role = "user"    -> p.user_access
      [] OTHER            -> p.admin_access

\* switch (userRole) { admin / manager / user, default }
RoleFlag(p, role) ==
    CASE role = "admin"   -> p.admin_access
      [] role = "manager" -> p.manager_access
      [] OTHER            -> p.user_access

\* A decision that denies a route with no record.
DecideFailClosed(permissions, r, role) ==
    LET permissionData == Find(permissions, r)
    IN  IF permissionData = Null THEN FALSE ELSE RoleFlag(Val(permissionData), role)

\* Lines 65-90: the decision from a table, a normalized route and a role.
Decide(permissions, r, role) ==
    LET permissionData == Find(permissions, r)
    IN  IF permissionData = Null THEN TRUE ELSE RoleFlag(Val(permissionData), role)

\* A freshness test that also serves an entry exactly CACHE_TTL old.
CacheFreshInclusive(cache, at) ==
    cache # Null /\ at - Val(cache).timestamp <= CACHE_TTL

\* permissionsCache && Date.at() - permissionsCache.timestamp < CACHE_TTL
CacheFresh(cache, at) ==
    cache # Null /\ at - Val(cache).timestamp < CACHE_TTL


(***************************************************************************)
(* The page-access gate.                                                   *)
(***************************************************************************)
\* A fetch in flight: who awaits it, and the closure checkAccess captured.
\* beforeClear is history: clearPermissionsCache ran while the fetch was awaited.
Call(kind, r, role) == [kind |-> kind, route |-> r, role |-> role, beforeClear |-> FALSE]

\* History records.  A lookup is a pass through the cache test of line 46 or 115.
Quiet == [op |-> "quiet"]
Lookup(who, fetched, table, r, role) ==
    [op |-> "lookup", who |-> who, fetched |-> fetched, table |-> table, route |-> r,
     role |-> role, afterClear |-> cleared]
Fetched(who, table, r, role, stale) ==
    [op |-> "fetched", who |-> who, table |-> table, route |-> r, role |-> role,
     raced |-> CacheFresh(permissionsCache, clock), stale |-> stale]
Failed(who, how) == [op |-> "failed", who |-> who, how |-> how, cacheBefore |-> permissionsCache]

\* checkAccess without the test of lines 36-40.
checkAccessIgnoringUser(u, aL, rL, r, role) ==
    IF aL \/ rL THEN
        /\ UNCHANGED <<hasAccess, loading, inflight, cleared>>
        /\ ev' = [op |-> "waiting"]
    ELSE IF CacheFresh(permissionsCache, clock) THEN
        /\ hasAccess' = Some(Decide(Val(permissionsCache).data, normalizedRoute(r), role))
        /\ loading' = FALSE
        /\ UNCHANGED inflight
        /\ cleared' = FALSE
        /\ ev' = Lookup("page", FALSE, Val(permissionsCache).data, normalizedRoute(r), role)
    ELSE
        /\ Len(inflight) < MaxInflight
        /\ inflight' = Append(inflight, Call("page", normalizedRoute(r), role))
        /\ UNCHANGED <<hasAccess, loading>>
        /\ cleared' = FALSE
        /\ ev' = Lookup("page", TRUE, <<>>, normalizedRoute(r), role)

\* checkAccess, lines 30-98, up to its first await, called with the closure
\* (u, aL, rL, r, role) of the render that created it.
checkAccess(u, aL, rL, r, role) ==
    IF aL \/ rL THEN
        /\ UNCHANGED <<hasAccess, loading, inflight, cleared>>
        /\ ev' = [op |-> "waiting"]
    ELSE IF ~u THEN
        /\ hasAccess' = Some(FALSE)
        /\ loading' = FALSE
        /\ UNCHANGED <<inflight, cleared>>
        /\ ev' = [op |-> "no_user"]
    ELSE IF CacheFresh(permissionsCache, clock) THEN
        /\ hasAccess' = Some(Decide(Val(permissionsCache).data, normalizedRoute(r), role))
        /\ loading' = FALSE
        /\ UNCHANGED inflight
        /\ cleared' = FALSE
        /\ ev' = Lookup("page", FALSE, Val(permissionsCache).data, normalizedRoute(r), role)
    ELSE
        /\ Len(inflight) < MaxInflight
        /\ inflight' = Append(inflight, Call("page", normalizedRoute(r), role))
        /\ UNCHANGED <<hasAccess, loading>>
        /\ cleared' = FALSE
        /\ ev' = Lookup("page", TRUE, <<>>, normalizedRoute(r), role)

\* useAuth() finishes loading, with or without a user; the effect re-runs.
AuthResolved(u) ==
    /\ authLoading
    /\ authLoading' = FALSE
    /\ user' = u
    /\ checkAccess(u, FALSE, roleLoading, route, userRole)
    /\ UNCHANGED <<permissionsCache, clock, route, userRole, roleLoading, allPerms>>
    /\ UNCHANGED outsideAccess

\* useUserRole() finishes loading with a role; the effect re-runs.
RoleResolved(role) ==
    /\ roleLoading
    /\ roleLoading' = FALSE
    /\ userRole' = role
    /\ checkAccess(user, authLoading, FALSE, route, role)
    /\ UNCHANGED <<permissionsCache, clock, route, user, authLoading, allPerms>>
    /\ UNCHANGED outsideAccess

\* The role changes after loading; the effect re-runs (userRole is a dependency).
SetRole(role) ==
    /\ ~roleLoading
    /\ role # userRole
    /\ userRole' = role
    /\ checkAccess(user, authLoading, roleLoading, route, role)
    /\ UNCHANGED <<permissionsCache, clock, route, user, authLoading, roleLoading, allPerms>>
    /\ UNCHANGED outsideAccess

\* The route argument changes; the effect re-runs only when normalizedRoute changed
\* (lines 26-28, 98, 100-102).
Navigate(r) ==
    /\ r # route
    /\ route' = r
    /\ IF normalizedRoute(r) # normalizedRoute(route)
       THEN checkAccess(user, authLoading, roleLoading, r, userRole)
       ELSE /\ UNCHANGED <<hasAccess, loading, inflight, cleared>>
            /\ ev' = Quiet
    /\ UNCHANGED <<permissionsCache, clock, user, authLoading, userRole, roleLoading,
                   allPerms>>
    /\ UNCHANGED outsideAccess

\* The effect of lines 100-102 runs checkAccess, or the caller invokes refetch
\* (line 104): checkAccess with the current closure.
Refetch ==
    /\ checkAccess(user, authLoading, roleLoading, route, userRole)
    /\ UNCHANGED <<permissionsCache, clock, route, user, authLoading, userRole,
                   roleLoading, allPerms>>
    /\ UNCHANGED outsideAccess

\* useAllPagePermissions mounts and its effect runs fetchPermissions (lines 111-138).
MountAll ==
    /\ ~allPerms.mounted
    /\ IF CacheFresh(permissionsCache, clock) THEN
           /\ allPerms' = [mounted |-> TRUE, permissions |-> Val(permissionsCache).data,
                           loading |-> FALSE]
           /\ UNCHANGED inflight
           /\ ev' = Lookup("all", FALSE, Val(permissionsCache).data, <<>>, "none")
       ELSE
           /\ Len(inflight) < MaxInflight
           /\ allPerms' = [allPerms EXCEPT !.mounted = TRUE]
           /\ inflight' = Append(inflight, Call("all", <<>>, "none"))
           /\ ev' = Lookup("all", TRUE, <<>>, <<>>, "none")
    /\ cleared' = FALSE
    /\ UNCHANGED <<permissionsCache, clock, route, user, authLoading, userRole,
                   roleLoading, hasAccess, loading>>
    /\ UNCHANGED outsideAccess

\* What the store can answer: the table it holds, null data without an error,
\* an error object, or a rejected request.
Outcomes == {"ok", "null", "error", "throw"}

Remove(s, i) == SubSeq(s, 1, i - 1) \o SubSeq(s, i + 1, Len(s))

\* A write that keeps the timestamp of the entry it replaces.
CacheEntryKeepTimestamp(data, at) ==
    Some([data |-> data,
          timestamp |-> IF permissionsCache = Null THEN at
                        ELSE Val(permissionsCache).timestamp])

\* permissionsCache = { data: permissions, timestamp: Date.at() }
CacheEntry(data, at) == Some([data |-> data, timestamp |-> at])

\* A failed fetch that caches an empty table.
CacheAfterErrorEmptyTable == CacheEntry(<<>>, clock)

\* Lines 54-59 and 91-97: a failed fetch leaves permissionsCache alone.
CacheAfterError == permissionsCache

\* The response to fetch i arrives and checkAccess resumes after its await
\* (lines 54-97).  data is the table the store returned.
ResumeCheckAccess(i, outcome, data) ==
    LET c == inflight[i]
        permissions == IF outcome = "ok" THEN data ELSE <<>>    \* data || []
    IN  /\ i \in 1..Len(inflight)
        /\ c.kind = "page"
        /\ inflight' = Remove(inflight, i)
        /\ loading' = FALSE
        /\ IF outcome \in {"error", "throw"} THEN
               /\ hasAccess' = Some(TRUE)
               /\ permissionsCache' = CacheAfterError
               /\ ev' = Failed("page", outcome)
           ELSE
               /\ permissionsCache' = CacheEntry(permissions, clock)
               /\ hasAccess' = Some(Decide(permissions, c.route, c.role))
               /\ ev' = Fetched("page", permissions, c.route, c.role, c.beforeClear)
        /\ UNCHANGED <<clock, route, user, authLoading, userRole, roleLoading,
                       allPerms, cleared>>
        /\ UNCHANGED outsideAccess

\* The response to fetch i arrives and fetchPermissions resumes after its await
\* (lines 125-134).
ResumeFetchPermissions(i, outcome, data) ==
    LET c == inflight[i]
        perms == IF outcome = "ok" THEN data ELSE <<>>          \* data || []
    IN  /\ i \in 1..Len(inflight)
        /\ c.kind = "all"
        /\ inflight' = Remove(inflight, i)
        /\ IF outcome \in {"error", "throw"} THEN
               /\ allPerms' = [allPerms EXCEPT !.loading = FALSE]
               /\ permissionsCache' = CacheAfterError
               /\ ev' = Failed("all", outcome)
           ELSE
               /\ allPerms' = [allPerms EXCEPT !.permissions = perms, !.loading = FALSE]
               /\ permissionsCache' = CacheEntry(perms, clock)
               /\ ev' = Fetched("all", perms, <<>>, "none", c.beforeClear)
        /\ UNCHANGED <<clock, route, user, authLoading, userRole, roleLoading,
                       hasAccess, loading, cleared>>
        /\ UNCHANGED outsideAccess

\* clearPermissionsCache, lines 144-146.
clearPermissionsCache ==
    /\ permissionsCache' = Null
    /\ cleared' = TRUE
    /\ inflight' = [i \in 1..Len(inflight) |-> [inflight[i] EXCEPT !.beforeClear = TRUE]]
    /\ ev' = [op |-> "clear"]
    /\ UNCHANGED <<clock, route, user, authLoading, userRole, roleLoading,
                   hasAccess, loading, allPerms>>
    /\ UNCHANGED outsideAccess

\* Time passes: to one millisecond before the next multiple of CACHE_TTL, or
\* onto it, so that an entry's age is seen just below and at the time-to-live.
Tick ==
    /\ clock < MaxTtlPeriods * CACHE_TTL
    /\ clock' = IF clock % CACHE_TTL = CACHE_TTL - 1 THEN clock + 1
                ELSE clock + CACHE_TTL - 1
    /\ ev' = Quiet
    /\ UNCHANGED <<permissionsCache, route, user, authLoading, userRole,
                   roleLoading, hasAccess, loading, inflight, allPerms, cleared>>
    /\ UNCHANGED outsideAccess

\* The hook as the first render leaves it, for a signed-in user whose role is known.
InitAccess ==
    /\ permissionsCache = Null
    /\ clock = 0
    /\ route \in RawRoutes
    /\ user = TRUE
    /\ authLoading = FALSE
    /\ userRole \in Roles
    /\ roleLoading = FALSE
    /\ hasAccess = Null
    /\ loading = TRUE
    /\ inflight = <<>>
    /\ allPerms = [mounted |-> FALSE, permissions |-> <<>>, loading |-> TRUE]
    /\ cleared = FALSE
    /\ ev = Quiet

\* The permission cache and its callers: lookups, fetches, clearing, time.
NextAccess ==
    \/ Refetch
    \/ MountAll
    \/ \E i \in 1..MaxInflight, o \in Outcomes, t \in Tables : ResumeCheckAccess(i, o, t)
    \/ \E i \in 1..MaxInflight, o \in Outcomes, t \in Tables : ResumeFetchPermissions(i, o, t)
    \/ clearPermissionsCache
    \/ Tick

\* Line 104: the loading flag the hook reports.
ReportedLoading == loading \/ authLoading \/ roleLoading

\* The hook as mounted while useAuth and useUserRole are still loading; its
\* first effect run returned at line 33.
InitGate ==
    /\ permissionsCache = Null
    /\ clock = 0
    /\ route \in {RootRoute, RouteA}
    /\ user = FALSE
    /\ authLoading = TRUE
    /\ userRole = "none"
    /\ roleLoading = TRUE
    /\ hasAccess = Null
    /\ loading = TRUE
    /\ inflight = <<>>
    /\ allPerms = [mounted |-> FALSE, permissions |-> <<>>, loading |-> TRUE]
    /\ cleared = FALSE
    /\ ev = Quiet

\* The gate while the session, the role and the route change under it.
NextGate ==
    \/ \E u \in BOOLEAN : AuthResolved(u)
    \/ \E role \in Roles : RoleResolved(role)
    \/ \E role \in Roles : SetRole(role)
    \/ \E r \in {RootRoute, RouteA, RouteASlash} : Navigate(r)
    \/ Refetch
    \/ MountAll
    \/ \E i \in 1..MaxInflight, o \in Outcomes, t \in Tables : ResumeCheckAccess(i, o, t)
    \/ \E i \in 1..MaxInflight, o \in Outcomes, t \in Tables : ResumeFetchPermissions(i, o, t)

(***************************************************************************)
(* Route normalization as a pure function.                                 *)
(***************************************************************************)
InitRoute ==
    /\ rawRoute \in RouteStrings(MaxRouteLen)
    /\ normOnce = Null
    /\ normTwice = Null

\* The hook normalizes its route argument.
Normalize ==
    /\ normOnce = Null
    /\ normOnce' = Some(normalizedRoute(rawRoute))
    /\ UNCHANGED <<rawRoute, normTwice>>
    /\ UNCHANGED outsideRoute

\* The normalized route is passed to the hook again.
NormalizeAgain ==
    /\ normOnce # Null
    /\ normTwice = Null
    /\ normTwice' = Some(normalizedRoute(Val(normOnce)))
    /\ UNCHANGED <<rawRoute, normOnce>>
    /\ UNCHANGED outsideRoute

NextRoute == Normalize \/ NormalizeAgain

(***************************************************************************)
(* Time.  An instant is a number of minutes since 2026-01-01T00:00Z; a     *)
(* wall-clock moment is the same count read without a zone.  A time zone   *)
(* is its standard offset, its daylight-saving offset and the instants     *)
(* between which the latter applies in 2026.                               *)
(***************************************************************************)
MinutesPerDay == 24 * 60
DayOf(w) == w \div MinutesPerDay
HourOf(w) == (w % MinutesPerDay) \div 60
MinuteOf(w) == w % 60
At(day, h, m) == day * MinutesPerDay + h * 60 + m

Mar7 == 31 + 28 + 6         \* day number of 2026-03-07
Mar8 == Mar7 + 1            \* 2026-03-08: New York springs forward at 07:00Z
\* 2026-11-01: New York falls back at 06:00Z
Nov1 == 31 + 28 + 31 + 30 + 31 + 30 + 31 + 31 + 30 + 31

\* The zones of TIMEZONES (lines 19-70) the model runs with.
TzNames == {"UTC", "Asia/Kolkata", "America/New_York"}

TzRules(tz) ==
    CASE tz = "UTC" -> [std |-> 0, dst |-> 0, from |-> 0, to |-> 0]
      [] tz = "Asia/Kolkata" -> [std |-> 330, dst |-> 330, from |-> 0, to |-> 0]
      [] tz = "America/New_York" ->
            [std |-> -300, dst |-> -240, from |-> At(Mar8, 7, 0), to |-> At(Nov1, 6, 0)]

\* The zone's offset from UTC at instant u.
TzOffset(tz, u) ==
    LET z == TzRules(tz) IN IF z.from <= u /\ u < z.to THEN z.dst ELSE z.std

\* ECMAScript LocalTime(t): the wall clock of instant u in zone tz.
LocalTime(tz, u) == u + TzOffset(tz, u)

\* ECMAScript UTC(t): the instant of wall clock w in zone tz.  A wall clock
\* that occurs twice is the earlier instant; one that is skipped is read with
\* the offset before the transition.
UTCFromLocal(tz, w) ==
    LET z == TzRules(tz)
        asDst == w - z.dst
        asStd == w - z.std
    IN  IF TzOffset(tz, asDst) = z.dst THEN asDst
        ELSE IF TzOffset(tz, asStd) = z.std THEN asStd
        ELSE IF asStd < z.to THEN asStd ELSE asDst

\* Date.prototype.setHours(h, m, 0, 0) on instant d, in the browser's zone.
setHours(d, h, m) ==
    UTCFromLocal(browserTz, At(DayOf(LocalTime(browserTz, d)), h, m))

\* Date.prototype.setMinutes(m, 0, 0) on instant d, in the browser's zone.
setMinutes(d, m) ==
    LET t == LocalTime(browserTz, d)
    IN  UTCFromLocal(browserTz, At(DayOf(t), HourOf(t), m))

getHours(d) == HourOf(LocalTime(browserTz, d))
getMinutes(d) == MinuteOf(LocalTime(browserTz, d))

\* new Date(year, month, day): local midnight of a calendar day.
LocalMidnight(day) == UTCFromLocal(browserTz, At(day, 0, 0))

\* The calendar day of instant d in the browser's zone.
LocalDay(d) == DayOf(LocalTime(browserTz, d))

\* new Date(d.getFullYear(), d.getMonth(), d.getDate()), as on line 178.  The
\* form reads nothing of startDate but these three fields (lines 156-157, 178,
\* 200-201, 271-272, 458), so the model keeps startDate with its time of day
\* dropped: two Dates of one local day are the same form state.
DateOnly(d) == LocalMidnight(LocalDay(d))

\* format(d, "HH:mm") of date-fns, and the [h, m] that split(":").map(Number)
\* reads back from it.
FormatHHmm(d) == <<getHours(d), getMinutes(d)>>

\* Date.prototype.toISOString() and new Date(isoString).
toISOString(d) == [day |-> DayOf(d), hour |-> HourOf(d), minute |-> MinuteOf(d)]
ParseISO(iso) == At(iso.day, iso.hour, iso.minute)

Max(a, b) == IF a >= b THEN a ELSE b

\* date-fns-tz, calcOffset and fixOffset of tzParseTimezone.
calcOffset(u, tz) == TzOffset(tz, u)
fixOffset(localTS, offset, tz) ==
    LET guess == localTS - offset
        o2 == calcOffset(guess, tz)
    IN  IF offset = o2 THEN offset
        ELSE LET o3 == calcOffset(guess - (o2 - offset), tz)
             IN  IF o2 = o3 THEN o2 ELSE Max(o2, o3)

\* date-fns-tz fromZonedTime(date, tz): the local fields of date, as the
\* browser shows them, are read as a wall clock in zone tz.
fromZonedTime(date, tz) ==
    LET utc == LocalTime(browserTz, date)
        utcDate == LocalTime(browserTz, utc)
    IN  utc - fixOffset(utc, calcOffset(utcDate, tz), tz)

\* date-fns-tz toZonedTime(date, tz): a Date whose local fields, in the
\* browser, are the wall clock of instant date in zone tz.
toZonedTime(date, tz) == UTCFromLocal(browserTz, LocalTime(tz, date))

(***************************************************************************)
(* The meeting form.  While a save is awaited the submit button is         *)
(* disabled (line 604) and the model gives the dialog no other input       *)
(* until the write returns.                                                *)
(***************************************************************************)
\* generateTimeSlots, lines 79-91: "00:00" ... "23:45".
TIME_SLOTS == [i \in 1..(24 * 4) |-> <<(i - 1) \div 4, ((i - 1) % 4) * 15>>]

DURATION_OPTIONS == {"30", "60"}
parseInt(text) == IF text = "30" THEN 30 ELSE 60

\* Lines 171-172.
today == LocalMidnight(LocalDay(now))

\* getAvailableTimeSlots with the comparison of line 190 made inclusive.
getAvailableTimeSlotsInclusive(selectedDate) ==
    IF selectedDate = Null THEN TIME_SLOTS
    ELSE LET selectedDateOnly == LocalMidnight(LocalDay(Val(selectedDate)))
             isToday == selectedDateOnly = today
             Later(slot) ==
                 \/ slot[1] > getHours(now)
                 \/ slot[1] = getHours(now) /\ slot[2] >= getMinutes(now)
         IN  IF ~isToday THEN TIME_SLOTS ELSE SelectSeq(TIME_SLOTS, Later)

\* getAvailableTimeSlots without the isToday test of lines 179-181.
getAvailableTimeSlotsAnyDay(selectedDate) ==
    IF selectedDate = Null THEN TIME_SLOTS
    ELSE LET Later(slot) ==
                 \/ slot[1] > getHours(now)
                 \/ slot[1] = getHours(now) /\ slot[2] > getMinutes(now)
         IN  SelectSeq(TIME_SLOTS, Later)

\* getAvailableTimeSlots, lines 175-193.
getAvailableTimeSlots(selectedDate) ==
    IF selectedDate = Null THEN TIME_SLOTS
    ELSE LET selectedDateOnly == LocalMidnight(LocalDay(Val(selectedDate)))
             isToday == selectedDateOnly = today
             Later(slot) ==
                 \/ slot[1] > getHours(now)
                 \/ slot[1] = getHours(now) /\ slot[2] > getMinutes(now)
         IN  IF ~isToday THEN TIME_SLOTS ELSE SelectSeq(TIME_SLOTS, Later)

\* calculateEndDateTime, lines 198-204.
calculateEndDateTime(start, time, durationMinutes) ==
    LET endDateTime == setHours(start, time[1], time[2])
    IN  setMinutes(endDateTime, getMinutes(endDateTime) + durationMinutes)

\* buildISODateTime, lines 268-276, for a date that is set.
buildISODateTime(date, time) ==
    toISOString(fromZonedTime(setHours(date, time[1], time[2]), timezone))

\* buildEndISODateTime, lines 278-284, for a date that is set.
buildEndISODateTime(date, time, durationMinutes) ==
    toISOString(fromZonedTime(calculateEndDateTime(date, time, durationMinutes), timezone))

\* Math.round(num / den) for den > 0: the nearest integer, halves upwards.
MathRound(num, den) == (2 * num + den) \div (2 * den)

\* Lines 214-215 with the minutes cut off instead of rounded.
DurationOnLoadTruncated(startMs, endMs) ==
    LET durationMs == endMs - startMs
        durationMinutes == durationMs \div (1000 * 60)
    IN  IF durationMinutes <= 30 THEN "30" ELSE "60"

\* Lines 214-215 and 219: the duration option for a stored start and end.
DurationOnLoad(startMs, endMs) ==
    LET durationMs == endMs - startMs
        durationMinutes == MathRound(durationMs, 1000 * 60)
    IN  IF durationMinutes <= 30 THEN "30" ELSE "60"

\* The days and slots chosen in the pickers, the moments the form is rendered
\* at, and the meetings that are stored.
PickDays == {Mar7, Mar8, Nov1}
PickSlots == {<<1, 45>>, <<2, 30>>, <<9, 0>>, <<21, 0>>, <<23, 45>>}
NowChoices == {At(Mar7, 14, 32)}
StoredMeetings ==
    { [start_time |-> toISOString(At(Mar8, 6, 45)), end_time |-> toISOString(At(Mar8, 7, 15))],
      [start_time |-> toISOString(At(Mar8, 6, 45)), end_time |-> toISOString(At(Mar8, 8, 15))] }

Range(q) == {q[i] : i \in 1..Len(q)}
FormQuiet == [op |-> "quiet"]

\* The effect of lines 206-251 when the modal opens for a new meeting.
OpenNew ==
    /\ ~open
    /\ open' = TRUE
    /\ meeting' = Null
    /\ LET defaultStart == setMinutes(now, ((getMinutes(now) + 14) \div 15) * 15 + 15)
       IN  /\ startDate' = Some(DateOnly(defaultStart))
           /\ startTime' = FormatHHmm(defaultStart)
    /\ duration' = "60"
    /\ subject' = FALSE
    /\ formEv' = [op |-> "open"]
    /\ tzChanges' = 0
    /\ UNCHANGED <<browserTz, now, timezone, modalLoading, pendingSave>>
    /\ UNCHANGED outsideForm

\* The effect of lines 206-251 when the modal opens on a stored meeting.
OpenEdit(m) ==
    /\ ~open
    /\ open' = TRUE
    /\ meeting' = Some(m)
    /\ LET start == ParseISO(m.start_time)
           end == ParseISO(m.end_time)
       IN  /\ startDate' = Some(DateOnly(start))
           /\ startTime' = FormatHHmm(start)
           \* getTime() counted from the start instant, in milliseconds
           /\ duration' = DurationOnLoad(0, (end - start) * 60 * 1000)
    /\ subject' = TRUE
    /\ formEv' = [op |-> "edit"]
    /\ tzChanges' = 0
    /\ UNCHANGED <<browserTz, now, timezone, modalLoading, pendingSave>>
    /\ UNCHANGED outsideForm

\* The dialog is dismissed: onOpenChange(false).
Close ==
    /\ open
    /\ ~modalLoading
    /\ open' = FALSE
    /\ formEv' = FormQuiet
    /\ UNCHANGED <<browserTz, now, meeting, timezone, startDate, startTime, duration,
                   subject, modalLoading, pendingSave, tzChanges>>
    /\ UNCHANGED outsideForm

\* The Calendar's onSelect, lines 462-469: a day that is not disabled.
SelectDate(day) ==
    /\ open
    /\ ~modalLoading
    /\ ~(LocalMidnight(day) < today)
    /\ startDate' = Some(LocalMidnight(day))
    /\ formEv' = FormQuiet
    /\ UNCHANGED <<browserTz, now, open, meeting, timezone, startTime, duration, subject,
                   modalLoading, pendingSave, tzChanges>>
    /\ UNCHANGED outsideForm

\* A slot button of the start time picker, lines 487-500.
SelectTime(slot) ==
    /\ open
    /\ ~modalLoading
    /\ slot \in Range(getAvailableTimeSlots(startDate))
    /\ startTime' = slot
    /\ formEv' = FormQuiet
    /\ UNCHANGED <<browserTz, now, open, meeting, timezone, startDate, duration, subject,
                   modalLoading, pendingSave, tzChanges>>
    /\ UNCHANGED outsideForm

\* The duration select, line 507.
SelectDuration(d) ==
    /\ open
    /\ ~modalLoading
    /\ d # duration
    /\ duration' = d
    /\ formEv' = FormQuiet
    /\ UNCHANGED <<browserTz, now, open, meeting, timezone, startDate, startTime, subject,
                   modalLoading, pendingSave, tzChanges>>
    /\ UNCHANGED outsideForm

\* The subject input, lines 416-424.
TypeSubject ==
    /\ open
    /\ ~modalLoading
    /\ subject' = ~subject
    /\ formEv' = FormQuiet
    /\ UNCHANGED <<browserTz, now, open, meeting, timezone, startDate, startTime, duration,
                   modalLoading, pendingSave, tzChanges>>
    /\ UNCHANGED outsideForm

\* handleTimezoneChange, lines 152-168.
handleTimezoneChange(newTimezone) ==
    /\ open
    /\ ~modalLoading
    /\ tzChanges < MaxTzChanges
    /\ IF startDate # Null THEN
           LET dateInOldTz == setHours(Val(startDate), startTime[1], startTime[2])
               utcTime == fromZonedTime(dateInOldTz, timezone)
               timeInNewTz == toZonedTime(utcTime, newTimezone)
           IN  /\ startDate' = Some(DateOnly(timeInNewTz))
               /\ startTime' = FormatHHmm(timeInNewTz)
               /\ formEv' = [op |-> "timezone", from |-> timezone,
                             dayBefore |-> LocalDay(Val(startDate)),
                             timeBefore |-> startTime,
                             isoBefore |-> buildISODateTime(Val(startDate), startTime)]
       ELSE
           /\ UNCHANGED <<startDate, startTime>>
           /\ formEv' = FormQuiet
    /\ timezone' = newTimezone
    /\ tzChanges' = tzChanges + 1
    /\ UNCHANGED <<browserTz, now, open, meeting, duration, subject, modalLoading,
                   pendingSave>>
    /\ UNCHANGED outsideForm

\* handleSubmit, lines 345-384, up to the await of the write.
handleSubmit ==
    /\ open
    /\ ~modalLoading
    /\ IF ~subject \/ startDate = Null THEN
           /\ formEv' = [op |-> "missing"]
           /\ UNCHANGED <<modalLoading, pendingSave, tzChanges>>
       ELSE
           LET meetingData ==
                   [start_time |-> buildISODateTime(Val(startDate), startTime),
                    end_time |-> buildEndISODateTime(Val(startDate), startTime,
                                                     parseInt(duration))]
           IN  /\ modalLoading' = TRUE
               /\ pendingSave' = Some(meetingData)
               /\ formEv' = [op |-> "submit", data |-> meetingData,
                             day |-> LocalDay(Val(startDate)), time |-> startTime,
                             minutes |-> parseInt(duration)]
    /\ UNCHANGED <<browserTz, now, open, meeting, timezone, startDate, startTime, duration,
                   subject, tzChanges>>
    /\ UNCHANGED outsideForm

\* handleSubmit after the await with onSuccess and onOpenChange(false) moved
\* to the finally block.
SaveReturnsThenCloses(ok) ==
    /\ pendingSave # Null
    /\ pendingSave' = Null
    /\ modalLoading' = FALSE
    /\ open' = FALSE
    /\ formEv' = [op |-> IF ok THEN "saved" ELSE "save_failed", data |-> Val(pendingSave),
                  update |-> meeting # Null, onSuccess |-> TRUE,
                  toast |-> IF ok THEN "Success" ELSE "Error"]
    /\ UNCHANGED <<browserTz, now, meeting, timezone, startDate, startTime, duration,
                   subject, tzChanges>>
    /\ UNCHANGED outsideForm

\* handleSubmit after the await, lines 376-397: the write succeeded or failed.
\* The history records whether onSuccess was called and which toast was shown.
SaveReturns(ok) ==
    /\ pendingSave # Null
    /\ pendingSave' = Null
    /\ modalLoading' = FALSE
    /\ open' = IF ok THEN FALSE ELSE open
    /\ formEv' = [op |-> IF ok THEN "saved" ELSE "save_failed", data |-> Val(pendingSave),
                  update |-> meeting # Null, onSuccess |-> ok,
                  toast |-> IF ok THEN "Success" ELSE "Error"]
    /\ UNCHANGED <<browserTz, now, meeting, timezone, startDate, startTime, duration,
                   subject, tzChanges>>
    /\ UNCHANGED outsideForm

\* The component as mounted, closed: lines 128-149.
InitForm ==
    /\ browserTz \in TzNames
    /\ now \in NowChoices
    /\ open = FALSE
    /\ meeting = Null
    /\ timezone = "Asia/Kolkata"
    /\ startDate = Null
    /\ startTime = <<9, 0>>
    /\ duration = "60"
    /\ subject = FALSE
    /\ modalLoading = FALSE
    /\ pendingSave = Null
    /\ tzChanges = 0
    /\ formEv = FormQuiet

NextForm ==
    \/ OpenNew
    \/ \E m \in StoredMeetings : OpenEdit(m)
    \/ Close
    \/ \E day \in PickDays : SelectDate(day)
    \/ \E slot \in PickSlots : SelectTime(slot)
    \/ \E d \in DURATION_OPTIONS : SelectDuration(d)
    \/ TypeSubject
    \/ \E tz \in TzNames : handleTimezoneChange(tz)
    \/ handleSubmit
    \/ \E ok \in BOOLEAN : SaveReturns(ok)

\* The form at rest, for the specifications of the other parts.
FormIdle == InitForm /\ browserTz = "UTC" /\ now = At(Mar7, 14, 32)

(***************************************************************************)
(* The start time picker as a function of the render's inputs: the browser *)
(* zone, now and the selected date.                                        *)
(***************************************************************************)
\* The moments of the render and the selected dates, as times of day of
\* 2026-03-07 and 2026-03-08.
PickerNows ==
    {At(Mar7, 0, 0), At(Mar7, 14, 30), At(Mar7, 14, 32), At(Mar7, 14, 45),
     At(Mar7, 23, 44), At(Mar7, 23, 45), At(Mar7, 23, 50)}
PickerDates ==
    {Null} \cup {Some(At(day, hm[1], hm[2])) : day \in {Mar7, Mar8},
                                              hm \in {<<0, 0>>, <<18, 5>>}}

\* Lines 195 and 487-500: the list of slot buttons, or the text
\* "No available times today" when there is none.
RenderStartTimes ==
    /\ shown = Null
    /\ LET availableStartTimeSlots == getAvailableTimeSlots(startDate)
       IN  shown' = Some([slots |-> availableStartTimeSlots,
                          view |-> IF Len(availableStartTimeSlots) > 0
                                   THEN "list" ELSE "none"])
    /\ UNCHANGED formVars
    /\ UNCHANGED outsidePicker

InitPicker ==
    /\ browserTz \in TzNames
    /\ now \in PickerNows
    /\ open = TRUE
    /\ meeting = Null
    /\ timezone = "Asia/Kolkata"
    /\ startDate \in PickerDates
    /\ startTime = <<9, 0>>
    /\ duration = "60"
    /\ subject = FALSE
    /\ modalLoading = FALSE
    /\ pendingSave = Null
    /\ tzChanges = 0
    /\ formEv = FormQuiet
    /\ shown = Null

NextPicker == RenderStartTimes

PickerIdle == shown = Null

(***************************************************************************)
(* The duration option selected when a stored meeting is opened, as a      *)
(* function of the stored start and end (lines 210-219).  The stored       *)
(* instants carry seconds and milliseconds here, which the form's own      *)
(* writes never produce but the stored entity allows.                      *)
(***************************************************************************)
StoredStarts == {0, 1, 59999, 60000, 3600000}
StoredLengths ==
    {0 - 60000, 0, 1, 29 * 60000, 30 * 60000, 30 * 60000 + 29999, 30 * 60000 + 30000,
     31 * 60000, 45 * 60000, 60 * 60000, 90 * 60000, 24 * 60 * 60000}

\* The effect of lines 210-219 on the duration field.
LoadMeeting ==
    /\ loaded = Null
    /\ loaded' = Some(DurationOnLoad(stored.start, stored.end))
    /\ UNCHANGED stored
    /\ UNCHANGED outsideLoad

InitLoad ==
    /\ stored \in {[start |-> st, end |-> st + len] : st \in StoredStarts, len \in StoredLengths}
    /\ loaded = Null

NextLoad == LoadMeeting

LoadIdle == stored = [start |-> 0, end |-> 0] /\ loaded = Null

(***************************************************************************)
(* The calendar view (MeetingsCalendarView.tsx) and the derived status of  *)
(* the meetings list (Meetings, getMeetingStatus).  Both are rendered from *)
(* the same meetings, in the browser's zone, at the same now.  The colour  *)
(* classes are named by their theme colour.                                *)
(***************************************************************************)
WORK_START_HOUR == 8
WORK_END_HOUR == 20

\* date-fns on local calendar fields.  2026-01-01 is a Thursday; days of the
\* week count from Monday = 0.
Weekday(day) == (day + 3) % 7
isSameDay(a, b) == LocalDay(a) = LocalDay(b)
addDays(d, n) == UTCFromLocal(browserTz, LocalTime(browserTz, d) + n * MinutesPerDay)
addWeeks(d, n) == addDays(d, 7 * n)
startOfWeek(d) == LocalMidnight(LocalDay(d) - Weekday(LocalDay(d)))
daysInWeek(d) == [i \in 1..7 |-> LocalMidnight(LocalDay(startOfWeek(d)) + i - 1)]

\* Line 42.
displayDays(date, mode) == IF mode = "week" THEN daysInWeek(date) ELSE <<date>>

\* getMeetingsForDay with a meeting attributed to the day of its end as well.
getMeetingsForDayOrEnd(day) ==
    LET OnDay(m) == \/ isSameDay(ParseISO(m.start_time), day)
                    \/ isSameDay(ParseISO(m.end_time), day)
    IN  SelectSeq(meetings, OnDay)

\* getMeetingsForDay, lines 64-69.
getMeetingsForDay(day) ==
    LET OnDay(m) == isSameDay(ParseISO(m.start_time), day)
    IN  SelectSeq(meetings, OnDay)

\* getMeetingPosition without the floor of line 83.
getMeetingPositionNoFloor(m) ==
    LET startTimeOf == ParseISO(m.start_time)
        endTime == ParseISO(m.end_time)
        top == (getHours(startTimeOf) - WORK_START_HOUR) * 60 + getMinutes(startTimeOf)
        height == (getHours(endTime) - getHours(startTimeOf)) * 60
                  + (getMinutes(endTime) - getMinutes(startTimeOf))
    IN  [top |-> top, height |-> height]

\* getMeetingPosition, lines 71-84.
getMeetingPosition(m) ==
    LET startTimeOf == ParseISO(m.start_time)
        endTime == ParseISO(m.end_time)
        startHour == getHours(startTimeOf)
        startMinute == getMinutes(startTimeOf)
        endHour == getHours(endTime)
        endMinute == getMinutes(endTime)
        top == (startHour - WORK_START_HOUR) * 60 + startMinute
        height == ((endHour - startHour) * 60) + (endMinute - startMinute)
    IN  [top |-> top, height |-> Max(height, 30)]

\* getMeetingColor, lines 86-92.
getMeetingColor(m) ==
    IF m.status = "cancelled" THEN "destructive"
    ELSE IF ParseISO(m.start_time) < now THEN "muted"
    ELSE "primary"

\* getMeetingStatus with a start equal to now counted as past.
getMeetingStatusInclusive(m) ==
    IF m.status = "cancelled" THEN "cancelled"
    ELSE IF ParseISO(m.start_time) <= now THEN "completed" ELSE "scheduled"

\* getMeetingStatus of the meetings list, part_000 lines 182-187.
getMeetingStatus(m) ==
    IF m.status = "cancelled" THEN "cancelled"
    ELSE IF ParseISO(m.start_time) < now THEN "completed" ELSE "scheduled"

\* The test of line 206 with the far edge of the window left out as well.
OutsideWindowStrict(top) == top < 0 \/ top >= (WORK_END_HOUR - WORK_START_HOUR) * 60

\* Line 206: the meeting is not rendered in its column.
OutsideWindow(top) == top < 0 \/ top > (WORK_END_HOUR - WORK_START_HOUR) * 60

\* CurrentTimeIndicator, lines 260-280: Null, or Some(top).
CurrentTimeIndicator ==
    LET hour == getHours(now)
        minute == getMinutes(now)
    IN  IF hour < WORK_START_HOUR \/ hour >= WORK_END_HOUR THEN Null
        ELSE Some((hour - WORK_START_HOUR) * 60 + minute)

SeqMap(F(_), q) == [i \in 1..Len(q) |-> F(q[i])]

\* One day column, lines 183-252.
RenderColumn(day) ==
    LET dayMeetings == getMeetingsForDay(day)
        isToday == isSameDay(day, now)
        Inside(m) == ~OutsideWindow(getMeetingPosition(m).top)
        Block(m) == [id |-> m.id,
                     top |-> getMeetingPosition(m).top,
                     height |-> getMeetingPosition(m).height,
                     color |-> getMeetingColor(m)]
        IdOf(m) == m.id
    IN  [day |-> day,
         dayMeetings |-> SeqMap(IdOf, dayMeetings),
         blocks |-> SeqMap(Block, SelectSeq(dayMeetings, Inside)),
         marker |-> IF isToday THEN CurrentTimeIndicator ELSE Null]

\* The day columns for a current date and view mode.
Render(date, mode) == SeqMap(RenderColumn, displayDays(date, mode))

\* The list's derived status of every meeting.
RenderList ==
    LET Row(m) == [id |-> m.id, status |-> getMeetingStatus(m)]
    IN  SeqMap(Row, meetings)

\* The stored meetings shown, by the wall clock of a UTC browser.
CalMeeting(id, day, h, m, len, status) ==
    [id |-> id,
     start_time |-> toISOString(At(day, h, m)),
     end_time |-> toISOString(At(day, h, m) + len),
     status |-> status]
CalendarLists ==
    { <<CalMeeting("a", Mar7, 9, 0, 30, "scheduled"),
        CalMeeting("b", Mar7, 9, 0, 15, "scheduled"),
        CalMeeting("c", Mar7, 7, 0, 60, "scheduled"),
        CalMeeting("d", Mar7, 20, 0, 30, "cancelled")>>,
      <<CalMeeting("e", Mar7, 14, 32, 0, "scheduled"),
        CalMeeting("f", Mar7, 20, 0, 60, "scheduled"),
        CalMeeting("g", Mar7, 20, 15, 30, "scheduled"),
        CalMeeting("h", Mar7, 23, 30, 60, "scheduled")>>,
      <<CalMeeting("i", Mar7 - 7, 10, 0, 90, "cancelled"),
        CalMeeting("j", Mar8, 6, 45, 30, "completed"),
        CalMeeting("k", Mar8 + 1, 8, 0, 12 * 60, "scheduled")>> }
CalendarNows == {At(Mar7, 7, 59), At(Mar7, 14, 32), At(Mar7, 19, 59), At(Mar7, 20, 0)}

\* goToPrevious, lines 44-50, and the render that follows.
goToPrevious ==
    /\ navs < MaxNavs
    /\ currentDate' = IF viewMode = "week" THEN addWeeks(currentDate, 0 - 1)
                                           ELSE addDays(currentDate, 0 - 1)
    /\ columns' = Render(currentDate', viewMode)
    /\ listed' = RenderList
    /\ navs' = navs + 1
    /\ UNCHANGED <<meetings, viewMode, browserTz, now>>
    /\ UNCHANGED <<open, meeting, timezone, startDate, startTime, duration, subject,
                   modalLoading, pendingSave, tzChanges, formEv>>
    /\ UNCHANGED outsideCalendar

\* goToNext, lines 52-58, and the render that follows.
goToNext ==
    /\ navs < MaxNavs
    /\ currentDate' = IF viewMode = "week" THEN addWeeks(currentDate, 1)
                                           ELSE addDays(currentDate, 1)
    /\ columns' = Render(currentDate', viewMode)
    /\ listed' = RenderList
    /\ navs' = navs + 1
    /\ UNCHANGED <<meetings, viewMode, browserTz, now>>
    /\ UNCHANGED <<open, meeting, timezone, startDate, startTime, duration, subject,
                   modalLoading, pendingSave, tzChanges, formEv>>
    /\ UNCHANGED outsideCalendar

\* goToToday, lines 60-62, and the render that follows.
goToToday ==
    /\ currentDate' = now
    /\ columns' = Render(currentDate', viewMode)
    /\ listed' = RenderList
    /\ navs' = 0
    /\ UNCHANGED <<meetings, viewMode, browserTz, now>>
    /\ UNCHANGED <<open, meeting, timezone, startDate, startTime, duration, subject,
                   modalLoading, pendingSave, tzChanges, formEv>>
    /\ UNCHANGED outsideCalendar

\* The Day and Week buttons, lines 121-134, and the render that follows.
setViewMode(mode) ==
    /\ mode # viewMode
    /\ viewMode' = mode
    /\ columns' = Render(currentDate, viewMode')
    /\ listed' = RenderList
    /\ UNCHANGED <<meetings, currentDate, navs, browserTz, now>>
    /\ UNCHANGED <<open, meeting, timezone, startDate, startTime, duration, subject,
                   modalLoading, pendingSave, tzChanges, formEv>>
    /\ UNCHANGED outsideCalendar

\* The view as mounted, lines 35-36, after its first render.
InitCalendar ==
    /\ browserTz \in TzNames
    /\ now \in CalendarNows
    /\ open = FALSE
    /\ meeting = Null
    /\ timezone = "Asia/Kolkata"
    /\ startDate = Null
    /\ startTime = <<9, 0>>
    /\ duration = "60"
    /\ subject = FALSE
    /\ modalLoading = FALSE
    /\ pendingSave = Null
    /\ tzChanges = 0
    /\ formEv = FormQuiet
    /\ meetings \in CalendarLists
    /\ currentDate = now
    /\ viewMode = "week"
    /\ columns = Render(now, "week")
    /\ listed = RenderList
    /\ navs = 0

NextCalendar ==
    \/ goToPrevious
    \/ goToNext
    \/ goToToday
    \/ \E mode \in {"week", "day"} : setViewMode(mode)

CalendarIdle ==
    /\ meetings = <<>>
    /\ currentDate = 0
    /\ viewMode = "week"
    /\ columns = <<>>
    /\ listed = <<>>
    /\ navs = 0

RouteIdle == rawRoute = <<>> /\ normOnce = Null /\ normTwice = Null

SecurityIdle ==
    /\ authUser = Null
    /\ secRole = Null
    /\ logFn = 0
    /\ sessionLoggedRef = Null
    /\ visibilityHandlerRef = Null
    /\ listeners = <<>>
    /\ hasCleanup = FALSE
    /\ sessionStarts = 0
    /\ secSteps = 0
    /\ secEv = [op |-> "quiet"]

SelectionIdle ==
    /\ pageMeetings = <<>>
    /\ dbMeetings = <<>>
    /\ filteredMeetings = <<>>
    /\ selectedMeetings = <<>>
    /\ searchTerm = <<>>
    /\ statusFilter = "all"
    /\ selEv = [op |-> "quiet"]

StagesIdle ==
    /\ stage = "Lead"
    /\ openStages = [s \in {"Lead"} |-> TRUE]
    /\ toggles = 0
    /\ stageEv = [op |-> "quiet"]

(***************************************************************************)
(* SecurityProvider (part_000, lines 26-94).  useAuth, useUserRole and     *)
(* useSecurityAudit are inputs: each render receives a user object, a role *)
(* and a logSecurityEvent function.  A step is one render together with    *)
(* the effect cleanup and the effect run that the render schedules.        *)
(***************************************************************************)
UserIds == {<<"u1">>, <<"u2">>}
UserObjects == [id : UserIds, object : 0..1]
SecRoles == {<<"admin">>, <<"user">>}
LogFns == 0..1
MaxSecSteps == 6

\* const sessionKey = `${user.id}-${userRole}` (line 59).
sessionKey(u, r) == u.id \o <<"-">> \o r

\* useCallback(..., [user, logSecurityEvent]) (lines 37-44): the function is
\* the same function exactly when its dependencies are the same.
handleVisibilityChange(u, l) == [user |-> u, log |-> l]

\* document.addEventListener and document.removeEventListener: a listener that
\* is already registered is not registered twice.
addEventListener(ls, h) == IF \E i \in 1..Len(ls) : ls[i] = h THEN ls ELSE Append(ls, h)
removeEventListener(ls, h) == SelectSeq(ls, LAMBDA x : x # h)

\* The refs and the document as one value the effect works on.
SecState == [logged |-> sessionLoggedRef, handler |-> visibilityHandlerRef,
             listeners |-> listeners]

\* The cleanup the effect returns (lines 75-80).
EffectCleanupLeavingListener(st) == st
EffectCleanup(st) ==
    IF st.handler # Null
    THEN [st EXCEPT !.listeners = removeEventListener(st.listeners, Val(st.handler)),
                    !.handler = Null]
    ELSE st

\* Whether the effect logs SESSION_START (lines 58-60).
LogsAlways(st, u, r) == TRUE
LogsSessionStart(st, u, r) == st.logged # Some(sessionKey(Val(u), Val(r)))

\* The effect body (lines 47-73); the result also says whether SESSION_START was
\* logged and whether a cleanup was returned.
EffectBody(st, u, r, l) ==
    IF u = Null \/ r = Null
    THEN [logged |-> Null,
          handler |-> Null,
          listeners |-> IF st.handler # Null
                        THEN removeEventListener(st.listeners, Val(st.handler))
                        ELSE st.listeners,
          started |-> FALSE,
          cleanup |-> FALSE]
    ELSE [logged |-> IF LogsSessionStart(st, u, r)
                     THEN Some(sessionKey(Val(u), Val(r))) ELSE st.logged,
          handler |-> IF st.handler = Null
                      THEN Some(handleVisibilityChange(u, l)) ELSE st.handler,
          listeners |-> IF st.handler = Null
                        THEN addEventListener(st.listeners, handleVisibilityChange(u, l))
                        ELSE st.listeners,
          started |-> LogsSessionStart(st, u, r),
          cleanup |-> TRUE]

\* The user id and role that are logged in, Null when there is no session.
SessionOf(u, r) == IF u = Null \/ r = Null THEN Null ELSE Some(<<Val(u).id, Val(r)>>)

\* One render with user u, role r and logSecurityEvent l.  The effect's
\* dependencies are [user, userRole, logSecurityEvent, handleVisibilityChange]
\* (line 81); when one of them changed the previous cleanup runs, then the body.
RenderProvider(op, u, r, l) ==
    LET depsChanged == <<u, r, l, handleVisibilityChange(u, l)>>
                       # <<authUser, secRole, logFn, handleVisibilityChange(authUser, logFn)>>
        cleaned == IF hasCleanup THEN EffectCleanup(SecState) ELSE SecState
        after == EffectBody(cleaned, u, r, l)
        sameSession == SessionOf(u, r) = SessionOf(authUser, secRole)
    IN  /\ authUser' = u
        /\ secRole' = r
        /\ logFn' = l
        /\ IF depsChanged
           THEN /\ sessionLoggedRef' = after.logged
                /\ visibilityHandlerRef' = after.handler
                /\ listeners' = after.listeners
                /\ hasCleanup' = after.cleanup
                /\ sessionStarts' = (IF sameSession THEN sessionStarts ELSE 0)
                                    + (IF after.started THEN 1 ELSE 0)
                /\ secEv' = [op |-> op, effect |-> TRUE, started |-> after.started,
                             sameSession |-> sameSession]
           ELSE /\ UNCHANGED <<sessionLoggedRef, visibilityHandlerRef, listeners, hasCleanup,
                               sessionStarts>>
                /\ secEv' = [op |-> op, effect |-> FALSE, started |-> FALSE,
                             sameSession |-> TRUE]
        /\ secSteps' = secSteps + 1
        /\ UNCHANGED outsideSecurity

\* useAuth delivers a user after sign-in.
Login(id) ==
    /\ secSteps < MaxSecSteps
    /\ authUser = Null
    /\ RenderProvider("Login", Some([id |-> id, object |-> 0]), secRole, logFn)

\* useAuth delivers null after sign-out.
Logout ==
    /\ secSteps < MaxSecSteps
    /\ authUser # Null
    /\ RenderProvider("Logout", Null, secRole, logFn)

\* useAuth delivers a new user object for the same user (a refreshed session).
TokenRefresh ==
    /\ secSteps < MaxSecSteps
    /\ authUser # Null
    /\ RenderProvider("TokenRefresh",
              Some([Val(authUser) EXCEPT !.object = 1 - Val(authUser).object]),
              secRole, logFn)

\* useUserRole delivers another role, or none.
RoleChange(r) ==
    /\ secSteps < MaxSecSteps
    /\ r # secRole
    /\ RenderProvider("RoleChange", authUser, r, logFn)

\* useSecurityAudit delivers a new logSecurityEvent function.
AuditChange ==
    /\ secSteps < MaxSecSteps
    /\ RenderProvider("AuditChange", authUser, secRole, 1 - logFn)

\* The provider renders again with the same inputs.
Rerender ==
    /\ secSteps < MaxSecSteps
    /\ RenderProvider("Rerender", authUser, secRole, logFn)

\* The document fires visibilitychange: every registered listener runs
\* (lines 37-44) and logs for the user it was created with.
VisibilityChange(hidden) ==
    /\ listeners # <<>>
    /\ secEv.op # "VisibilityChange"
    /\ secEv' = [op |-> "VisibilityChange", effect |-> FALSE, started |-> FALSE,
                 sameSession |-> TRUE,
                 logs |-> [i \in 1..Len(listeners) |->
                              IF listeners[i].user = Null THEN Null
                              ELSE Some([event |-> IF hidden THEN "SESSION_INACTIVE"
                                                   ELSE "SESSION_ACTIVE",
                                         user |-> Val(listeners[i].user).id])]]
    /\ UNCHANGED <<authUser, secRole, logFn, sessionLoggedRef, visibilityHandlerRef,
                   listeners, hasCleanup, sessionStarts, secSteps>>
    /\ UNCHANGED outsideSecurity

NextSecurity ==
    \/ \E id \in UserIds : Login(id)
    \/ Logout
    \/ TokenRefresh
    \/ \E r \in {Null} \cup {Some(x) : x \in SecRoles} : RoleChange(r)
    \/ AuditChange
    \/ Rerender
    \/ \E hidden \in BOOLEAN : VisibilityChange(hidden)

(***************************************************************************)
(* The meetings list page (part_000, Meetings): search, status filter,     *)
(* row selection and bulk delete.  Strings are sequences of letters.       *)
(***************************************************************************)
\* String.prototype.toLowerCase on the letters the model uses.
LowerOf(c) == IF c = "A" THEN "a" ELSE IF c = "B" THEN "b" ELSE c
toLowerCase(str) == [i \in 1..Len(str) |-> LowerOf(str[i])]

\* String.prototype.includes.
includes(str, part) ==
    \E i \in 0..Len(str) :
        /\ i + Len(part) <= Len(str)
        /\ \A j \in 1..Len(part) : str[i + j] = part[j]

\* name?.toLowerCase().includes(term): undefined, hence false, without a name.
NameMatches(name, term) ==
    IF name = Null THEN FALSE ELSE includes(toLowerCase(Val(name)), toLowerCase(term))

ListMeeting(id, title, lead, contact, day, status) ==
    [id |-> id, subject |-> title, lead_name |-> lead, contact_name |-> contact,
     start_time |-> toISOString(At(day, 9, 0)), status |-> status]

\* The meetings table as first read, ordered by start_time.
ListMeetings ==
    <<ListMeeting("m1", <<"A", "b">>, Null, Null, Mar7, "scheduled"),
      ListMeeting("m2", <<"b", "c">>, Some(<<"a">>), Null, Mar8, "scheduled"),
      ListMeeting("m3", <<"c">>, Null, Some(<<"B">>), Mar8 + 1, "cancelled")>>
SearchTerms == {<<>>, <<"a">>, <<"A", "b">>, <<"z">>}
StatusFilters == {"all", "scheduled", "completed", "cancelled"}

\* The filter effect, lines 189-202.
FilterMeetings(ms, term, filter) ==
    LET matchesSearch(m) ==
            \/ NameMatches(Some(m.subject), term)
            \/ NameMatches(m.lead_name, term)
            \/ NameMatches(m.contact_name, term)
        Keep(m) == IF filter = "all" THEN matchesSearch(m)
                   ELSE matchesSearch(m) /\ getMeetingStatus(m) = filter
    IN  SelectSeq(ms, Keep)

IdsOf(ms) == {ms[i].id : i \in 1..Len(ms)}
SeqIds(ms) == [i \in 1..Len(ms) |-> ms[i].id]
Elems(q) == {q[i] : i \in 1..Len(q)}

\* Line 269.
isAllSelected == Len(filteredMeetings) > 0 /\ Len(selectedMeetings) = Len(filteredMeetings)

\* fetchMeetings, lines 144-176, and the filter effect that follows
\* setMeetings; ok is whether the query succeeded.
fetchMeetings(ok) ==
    /\ IF ok
       THEN /\ pageMeetings' = dbMeetings
            /\ selectedMeetings' = <<>>
            /\ filteredMeetings' = FilterMeetings(dbMeetings, searchTerm, statusFilter)
       ELSE UNCHANGED <<pageMeetings, selectedMeetings, filteredMeetings>>
    /\ selEv' = [op |-> "fetchMeetings", ok |-> ok]
    /\ UNCHANGED <<dbMeetings, searchTerm, statusFilter>>
    /\ UNCHANGED outsideSelection

\* The search box, line 323, and the filter effect.
setSearchTerm(term) ==
    /\ term # searchTerm
    /\ searchTerm' = term
    /\ filteredMeetings' = FilterMeetings(pageMeetings, term, statusFilter)
    /\ selEv' = [op |-> "setSearchTerm"]
    /\ UNCHANGED <<pageMeetings, dbMeetings, selectedMeetings, statusFilter>>
    /\ UNCHANGED outsideSelection

\* The status select, line 328, and the filter effect.
setStatusFilter(filter) ==
    /\ filter # statusFilter
    /\ statusFilter' = filter
    /\ filteredMeetings' = FilterMeetings(pageMeetings, searchTerm, filter)
    /\ selEv' = [op |-> "setStatusFilter"]
    /\ UNCHANGED <<pageMeetings, dbMeetings, selectedMeetings, searchTerm>>
    /\ UNCHANGED outsideSelection

\* A row's checkbox, lines 399-403 and 261-267: the rows are those of
\* filteredMeetings and the box passes its new state.
handleSelectMeeting(meetingId, checked) ==
    /\ meetingId \in IdsOf(filteredMeetings)
    /\ checked = (meetingId \notin Elems(selectedMeetings))
    /\ selectedMeetings' = IF checked THEN Append(selectedMeetings, meetingId)
                           ELSE SelectSeq(selectedMeetings, LAMBDA id : id # meetingId)
    /\ selEv' = [op |-> "handleSelectMeeting"]
    /\ UNCHANGED <<pageMeetings, dbMeetings, filteredMeetings, searchTerm, statusFilter>>
    /\ UNCHANGED outsideSelection

\* The header checkbox, lines 365-375 and 253-259: it shows isAllSelected and
\* passes its new state.
handleSelectAll(checked) ==
    /\ checked = ~isAllSelected
    /\ selectedMeetings' = IF checked THEN SeqIds(filteredMeetings) ELSE <<>>
    /\ selEv' = [op |-> "handleSelectAll"]
    /\ UNCHANGED <<pageMeetings, dbMeetings, filteredMeetings, searchTerm, statusFilter>>
    /\ UNCHANGED outsideSelection

\* "Delete Selected" (lines 342-356, 515-518) and handleBulkDelete, lines
\* 228-251, with the fetchMeetings it ends with.  ok and fetched are whether
\* the delete and the query that follows succeeded.
handleBulkDelete(ok, fetched) ==
    /\ Len(selectedMeetings) > 0
    /\ IF ok
       THEN LET left == SelectSeq(dbMeetings, LAMBDA m : m.id \notin Elems(selectedMeetings))
            IN  /\ dbMeetings' = left
                /\ selectedMeetings' = <<>>
                /\ IF fetched
                   THEN /\ pageMeetings' = left
                        /\ filteredMeetings' = FilterMeetings(left, searchTerm, statusFilter)
                   ELSE UNCHANGED <<pageMeetings, filteredMeetings>>
       ELSE UNCHANGED <<dbMeetings, selectedMeetings, pageMeetings, filteredMeetings>>
    /\ selEv' = [op |-> "handleBulkDelete", ok |-> ok,
                 deleted |-> IdsOf(dbMeetings) \cap Elems(selectedMeetings),
                 shown |-> IdsOf(filteredMeetings)]
    /\ UNCHANGED <<searchTerm, statusFilter>>
    /\ UNCHANGED outsideSelection

NextSelection ==
    \/ \E ok \in BOOLEAN : fetchMeetings(ok)
    \/ \E term \in SearchTerms : setSearchTerm(term)
    \/ \E filter \in StatusFilters : setStatusFilter(filter)
    \/ \E id \in IdsOf(ListMeetings), checked \in BOOLEAN : handleSelectMeeting(id, checked)
    \/ \E checked \in BOOLEAN : handleSelectAll(checked)
    \/ \E ok \in BOOLEAN, fetched \in BOOLEAN : handleBulkDelete(ok, fetched)

\* The list page as constructed, lines 132-142, before the first fetch returns.
InitSelection ==
    /\ pageMeetings = <<>>
    /\ dbMeetings = ListMeetings
    /\ filteredMeetings = <<>>
    /\ selectedMeetings = <<>>
    /\ searchTerm = <<>>
    /\ statusFilter = "all"
    /\ selEv = [op |-> "quiet"]

(***************************************************************************)
(* DealStageForm (DealStageForm.tsx) with showPreviousStages set: the      *)
(* collapsible stage sections.  openStages is a JavaScript object: a       *)
(* function on the keys that were ever set.                                *)
(***************************************************************************)
MaxToggles == 3

\* Lines 46-49: the stages in order; indexOf counts from 0.
DealStages == <<"Lead", "Discussions", "Qualified", "RFQ", "Offered", "Won", "Lost", "Dropped">>
getStageIndex(stageValue) ==
    (CHOOSE i \in 1..Len(DealStages) : DealStages[i] = stageValue) - 1

\* Lines 52-53.
isFinalStage(s) == s \in {"Won", "Lost", "Dropped"}
allStages == <<"Lead", "Discussions", "Qualified", "RFQ", "Offered">>

\* Lines 129-140.
stagesToShow(s) ==
    IF isFinalStage(s) THEN Append(allStages, s)
    ELSE SubSeq(allStages, 1, getStageIndex(s) + 1)

\* Line 176: openStages[stageToRender] ?? (stageToRender === stage).
isOpen(stageToRender) ==
    IF stageToRender \in DOMAIN openStages THEN openStages[stageToRender]
    ELSE stageToRender = stage

\* What every section shown displays.
Displayed == [s \in Elems(stagesToShow(stage)) |-> isOpen(s)]

\* !prev[stageName]: undefined is falsy.
NotPrev(prev, stageName) == IF stageName \in DOMAIN prev THEN ~prev[stageName] ELSE TRUE

\* toggleStage, lines 55-57, called by the section's onOpenChange (line 182).
toggleStage(stageName) ==
    /\ toggles < MaxToggles
    /\ stageName \in Elems(stagesToShow(stage))
    /\ openStages' = [s \in DOMAIN openStages \cup {stageName} |->
                         IF s = stageName THEN NotPrev(openStages, stageName)
                         ELSE openStages[s]]
    /\ toggles' = toggles + 1
    /\ stageEv' = [op |-> "toggleStage", stageName |-> stageName, before |-> Displayed]
    /\ UNCHANGED stage
    /\ UNCHANGED outsideStages

\* The parent renders the form with another stage (line 38): the state
\* initializer of lines 41-44 does not run again.
StageChanges(s) ==
    /\ s # stage
    /\ stage' = s
    /\ stageEv' = [op |-> "StageChanges"]
    /\ UNCHANGED <<openStages, toggles>>
    /\ UNCHANGED outsideStages

NextStages ==
    \/ \E s \in Elems(DealStages) : toggleStage(s)
    \/ \E s \in Elems(DealStages) : StageChanges(s)

\* The form as mounted, lines 41-44.
InitStages ==
    /\ stage \in Elems(DealStages)
    /\ openStages = [s \in {stage} |-> TRUE]
    /\ toggles = 0
    /\ stageEv = [op |-> "quiet"]

\* The access gate at rest, for the specifications of the other parts.
AccessIdle == InitAccess /\ route = RootRoute /\ userRole = "none"

\* The parts added last, at rest.
RestIdle == SecurityIdle /\ SelectionIdle /\ StagesIdle

vars == <<accessVars, routeVars, formVars, pickerVars, loadVars, calVars, secVars, selVars,
          stageVars>>

\* The permission cache and its callers.
Init == InitAccess /\ RouteIdle /\ FormIdle /\ PickerIdle /\ LoadIdle /\ CalendarIdle /\ RestIdle
Spec == Init /\ [][NextAccess]_vars

\* Route normalization on arbitrary route strings.
InitNormalize ==
    InitRoute /\ AccessIdle /\ FormIdle /\ PickerIdle /\ LoadIdle /\ CalendarIdle /\ RestIdle
SpecRoute == InitNormalize /\ [][NextRoute]_vars

\* The gate under changes of session, role and route.
InitSession ==
    InitGate /\ RouteIdle /\ FormIdle /\ PickerIdle /\ LoadIdle /\ CalendarIdle /\ RestIdle
SpecGate == InitSession /\ [][NextGate]_vars

\* The meeting form.
InitMeeting ==
    InitForm /\ AccessIdle /\ RouteIdle /\ PickerIdle /\ LoadIdle /\ CalendarIdle /\ RestIdle
SpecForm == InitMeeting /\ [][NextForm]_vars

\* The start time picker.
InitSlots == InitPicker /\ AccessIdle /\ RouteIdle /\ LoadIdle /\ CalendarIdle /\ RestIdle
SpecPicker == InitSlots /\ [][NextPicker]_vars

\* The duration of a stored meeting as loaded.
InitStored ==
    InitLoad /\ AccessIdle /\ RouteIdle /\ FormIdle /\ PickerIdle /\ CalendarIdle /\ RestIdle
SpecLoad == InitStored /\ [][NextLoad]_vars

\* The calendar view and the meetings list.
InitView == InitCalendar /\ AccessIdle /\ RouteIdle /\ PickerIdle /\ LoadIdle /\ RestIdle
SpecCalendar == InitView /\ [][NextCalendar]_vars

\* The security provider under changes of user, role and audit hook.
InitProvider ==
    SecurityIdle /\ SelectionIdle /\ StagesIdle /\ AccessIdle /\ RouteIdle /\ FormIdle
    /\ PickerIdle /\ LoadIdle /\ CalendarIdle
SpecSecurity == InitProvider /\ [][NextSecurity]_vars

\* The meetings list page.
InitList ==
    InitSelection /\ SecurityIdle /\ StagesIdle /\ AccessIdle /\ RouteIdle /\ FormIdle
    /\ PickerIdle /\ LoadIdle /\ CalendarIdle
SpecList == InitList /\ [][NextSelection]_vars

\* The deal stage sections.
InitDeal ==
    InitStages /\ SecurityIdle /\ SelectionIdle /\ AccessIdle /\ RouteIdle /\ FormIdle
    /\ PickerIdle /\ LoadIdle /\ CalendarIdle
SpecStages == InitDeal /\ [][NextStages]_vars

(***************************************************************************)
(* Claims about the page-access gate, checked under Spec.                  *)
(***************************************************************************)
\* The last step decided access from a permission table: a lookup served
\* from the cache, or a fetch that returned to checkAccess.
DecidedFromTable ==
    \/ ev.op = "lookup" /\ ev.who = "page" /\ ~ev.fetched
    \/ ev.op = "fetched" /\ ev.who = "page"

\* The records of the table the last decision used whose route is the
\* normalized route of the hook's route argument.
MatchingRecords ==
    {i \in 1..Len(ev.table) : ev.table[i].route = normalizedRoute(route)}

\* C1: when the table holds a record for the normalized route, checkAccess
\* sets hasAccess to the flag of the first such record that the role selects:
\* admin_access for admin, manager_access for manager, user_access for user
\* and for every other role.
C1_RoleFlagGatesAccess ==
    (DecidedFromTable /\ MatchingRecords # {}) =>
        LET first == CHOOSE i \in MatchingRecords : \A j \in MatchingRecords : i <= j
            p == ev.table[first]
        IN  /\ userRole = "admin" => hasAccess = Some(p.admin_access)
            /\ userRole = "manager" => hasAccess = Some(p.manager_access)
            /\ userRole \notin {"admin", "manager"} => hasAccess = Some(p.user_access)

\* C1 witness: an unrecognized role is granted access by user_access alone.
C1_Witness ==
    /\ DecidedFromTable
    /\ MatchingRecords # {}
    /\ userRole = "none"
    /\ \E i \in MatchingRecords : ev.table[i].user_access /\ ~ev.table[i].admin_access
    /\ hasAccess = Some(TRUE)

\* C2: when the table, cached or freshly fetched, holds no record for the
\* normalized route, hasAccess is set to true whatever the role.
C2_MissingRecordAllows ==
    (DecidedFromTable /\ MatchingRecords = {}) => hasAccess = Some(TRUE)

\* C2 witness: a cached, non-empty table without a record for the route lets
\* a manager in.
C2_Witness ==
    /\ ev.op = "lookup" /\ ev.who = "page" /\ ~ev.fetched
    /\ ev.table # <<>>
    /\ MatchingRecords = {}
    /\ userRole = "manager"
    /\ hasAccess = Some(TRUE)

\* C3: when the fetch of checkAccess returns an error or throws, hasAccess is
\* true, loading is false and permissionsCache is what it was before.
C3_FetchFailureAllows ==
    (ev.op = "failed" /\ ev.who = "page") =>
        /\ hasAccess = Some(TRUE)
        /\ loading = FALSE
        /\ permissionsCache = ev.cacheBefore

\* C3 witness: a fetch throws after another fetch has filled the cache, and
\* the cache keeps that entry.
C3_Witness ==
    /\ ev.op = "failed" /\ ev.who = "page" /\ ev.how = "throw"
    /\ permissionsCache # Null
    /\ Val(permissionsCache).data # <<>>
    /\ hasAccess = Some(TRUE)

\* The cache is empty or its entry is at least CACHE_TTL old.
CacheMiss ==
    \/ permissionsCache = Null
    \/ clock - Val(permissionsCache).timestamp >= 5 * 60 * 1000

\* C4: a lookup issues a fetch if and only if the cache is empty or its
\* timestamp is at least 5 minutes old, and the cache gets a new entry only by
\* a successful fetch, stamped with the time the fetch returned.
C4_RefreshRule ==
    /\ [](ev.op = "lookup" => (ev.fetched <=> CacheMiss))
    /\ [][(permissionsCache' # permissionsCache /\ permissionsCache' # Null) =>
            /\ ev'.op = "fetched"
            /\ Val(permissionsCache').timestamp = clock']_vars

\* C4 witness: an entry exactly CACHE_TTL old is not served, the lookup fetches.
C4_Witness ==
    /\ ev.op = "lookup" /\ ev.fetched
    /\ permissionsCache # Null
    /\ clock - Val(permissionsCache).timestamp = 5 * 60 * 1000

\* C4, the other side of the boundary: an entry one millisecond younger than
\* CACHE_TTL is served.
C4_ServedJustBelowTtl ==
    /\ ev.op = "lookup" /\ ~ev.fetched
    /\ clock - Val(permissionsCache).timestamp = 5 * 60 * 1000 - 1

\* C5: the first lookup after clearPermissionsCache always issues a fetch.
C5_FirstLookupAfterClearFetches ==
    (ev.op = "lookup" /\ ev.afterClear) => ev.fetched

\* C6: a lookup that finds the cache empty or stale issues its own fetch also
\* while another fetch is in flight; a fetch that returns writes its own table
\* and the time of its return to the cache, and checkAccess decides from that
\* table.
C6_LastWriteWins ==
    /\ (ev.op = "lookup" /\ CacheMiss) => (ev.fetched /\ inflight # <<>>)
    /\ ev.op = "fetched" =>
           /\ permissionsCache = Some([data |-> ev.table, timestamp |-> clock])
           /\ ev.who = "page" =>
                 hasAccess = Some(IF MatchingRecords = {} THEN TRUE
                                  ELSE LET first == CHOOSE i \in MatchingRecords :
                                                       \A j \in MatchingRecords : i <= j
                                       IN  RoleFlag(ev.table[first], userRole))

\* C6 witness: the second of two concurrent fetches returns later than the
\* first, while the first one's table is being served, and replaces it.
C6_Witness ==
    /\ ev.op = "fetched" /\ ev.raced
    /\ inflight = <<>>
    /\ permissionsCache = Some([data |-> ev.table, timestamp |-> clock])
    /\ clock > 0
    /\ ev.table # <<>>

(***************************************************************************)
(* Claims about route normalization, checked under SpecRoute.              *)
(***************************************************************************)
\* C7: normalizing an already normalized route returns it unchanged, for
\* every route string.
C7_NormalizationIdempotent ==
    normTwice # Null => Val(normTwice) = Val(normOnce)

(***************************************************************************)
(* Claims about the meeting form's time resolution, checked under SpecForm. *)
(***************************************************************************)
\* C8: the end instant handleSubmit builds with buildEndISODateTime is exactly
\* the chosen duration, in minutes, after the start instant it builds with
\* buildISODateTime from the same date, slot and timezone.
C8_EndIsDurationAfterStart ==
    formEv.op = "submit" =>
        ParseISO(formEv.data.end_time) - ParseISO(formEv.data.start_time) = formEv.minutes

\* The wall clock (day, time) occurs in zone tz: it is not skipped by a
\* daylight-saving transition.
ValidWallClock(day, time, tz) ==
    \E off \in {TzRules(tz).std, TzRules(tz).dst} :
        TzOffset(tz, At(day, time[1], time[2]) - off) = off

\* C9: for a date and time of day that exist in the selected timezone, the
\* instant buildISODateTime produces, converted back to that timezone, shows
\* the original calendar date and time of day.
C9_ForwardThenReverse ==
    (formEv.op = "submit" /\ ValidWallClock(formEv.day, formEv.time, timezone)) =>
        LET back == toZonedTime(ParseISO(formEv.data.start_time), timezone)
        IN  /\ LocalDay(back) = formEv.day
            /\ FormatHHmm(back) = formEv.time

\* C10: after handleTimezoneChange the new date and time of day, understood
\* in the new timezone, denote the instant the old date and time of day
\* denoted in the old timezone.
C10_TimezoneChangeKeepsInstant ==
    formEv.op = "timezone" =>
        buildISODateTime(Val(startDate), startTime) = formEv.isoBefore

\* C11: handleTimezoneChange called with the timezone that is already selected
\* leaves the selected calendar date, the time of day and the timezone as
\* they were.
C11_SameTimezoneChangesNothing ==
    (formEv.op = "timezone" /\ formEv.from = timezone) =>
        /\ LocalDay(Val(startDate)) = formEv.dayBefore
        /\ startTime = formEv.timeBefore

\* C14: every record handleSubmit hands to the insert or update has its end
\* instant strictly after its start instant, the duration field being one of
\* the two options.
C14_EndAfterStart ==
    pendingSave # Null =>
        /\ ParseISO(Val(pendingSave).end_time) > ParseISO(Val(pendingSave).start_time)
        /\ duration \in DURATION_OPTIONS

(***************************************************************************)
(* Claims about the start time picker, checked under SpecPicker.           *)
(***************************************************************************)
\* The selected date is the calendar day of now in the browser's zone.
CandidateIsToday == startDate # Null /\ LocalDay(Val(startDate)) = LocalDay(now)

\* The quarter-hour slots of a day from the k-th on, k counted from 0.
SlotsFrom(k) == [i \in 1..(96 - k) |-> <<(k + i - 1) \div 4, ((k + i - 1) % 4) * 15>>]

\* C12: for a selected date that is today, the picker offers exactly the
\* quarter-hour slots strictly later than the current time of day, in
\* ascending order: at 14:32 the first is 14:45, a slot equal to now is left
\* out, and from 23:45 on there is none and the picker shows the text instead
\* of a list.
C12_TodayOnlyLaterSlots ==
    (shown # Null /\ CandidateIsToday) =>
        LET minuteOfDay == getHours(now) * 60 + getMinutes(now)
            slots == Val(shown).slots
        IN  /\ slots = SlotsFrom(minuteOfDay \div 15 + 1)
            /\ (minuteOfDay = 14 * 60 + 32 => slots[1] = <<14, 45>>)
            /\ \A i \in 1..Len(slots) : slots[i] # <<getHours(now), getMinutes(now)>>
            /\ (minuteOfDay >= 23 * 60 + 45 <=> slots = <<>>)
            /\ (Val(shown).view = "none" <=> slots = <<>>)

\* At 14:32 of today the list starts at 14:45.
C12_Witness ==
    /\ shown # Null
    /\ CandidateIsToday
    /\ <<getHours(now), getMinutes(now)>> = <<14, 32>>
    /\ Val(shown).slots[1] = <<14, 45>>
    /\ Val(shown).view = "list"

\* From 23:45 on the picker shows that no time is available.
C12_NoneLeft ==
    /\ shown # Null
    /\ CandidateIsToday
    /\ <<getHours(now), getMinutes(now)>> = <<23, 45>>
    /\ Val(shown).view = "none"

\* C13: for a selected date whose calendar day is not the day of now, the
\* picker offers all 96 slots from 00:00 to 23:45, a quarter of an hour
\* apart, in ascending order.
C13_OtherDayAllSlots ==
    (shown # Null /\ startDate # Null /\ LocalDay(Val(startDate)) # LocalDay(now)) =>
        LET slots == Val(shown).slots
        IN  /\ Len(slots) = 96
            /\ slots[1] = <<0, 0>>
            /\ slots[96] = <<23, 45>>
            /\ \A i \in 1..95 :
                   (slots[i + 1][1] * 60 + slots[i + 1][2]) -
                   (slots[i][1] * 60 + slots[i][2]) = 15

\* A date of another calendar day, less than 24 hours from now, with every
\* slot offered although most of them are earlier in the day than now is.
C13_Witness ==
    /\ shown # Null
    /\ startDate # Null
    /\ LocalDay(Val(startDate)) = LocalDay(now) + 1
    /\ Val(startDate) - now < MinutesPerDay
    /\ getHours(now) >= 14
    /\ Len(Val(shown).slots) = 96

(***************************************************************************)
(* Claims about opening a stored meeting, checked under SpecLoad.          *)
(***************************************************************************)
\* C15: the duration option selected for a stored meeting is "30" when its
\* length in minutes, rounded to the nearest minute, is at most 30, that is
\* when it is shorter than thirty and a half minutes, and "60" otherwise.
C15_DurationBucket ==
    loaded # Null =>
        Val(loaded) = IF 2 * (stored.end - stored.start) < 61 * 60 * 1000
                      THEN "30" ELSE "60"

\* A meeting of thirty and a half minutes rounds to 31 and is loaded as "60".
C15_Witness ==
    /\ loaded = Some("60")
    /\ stored.end - stored.start = 30 * 60000 + 30000

\* A meeting of ninety minutes is loaded as "60" as well.
C15_LongMeeting ==
    /\ loaded = Some("60")
    /\ stored.end - stored.start = 90 * 60000

(***************************************************************************)
(* Claims about the calendar view and the list, checked under SpecCalendar. *)
(***************************************************************************)
\* The minute of the day of an instant on the browser's wall clock.
WallMinute(d) == LocalTime(browserTz, d) % MinutesPerDay
MeetingById(id) == CHOOSE m \in Range(meetings) : m.id = id
ColumnIndexes == 1..Len(columns)

\* C16: a meeting's top is its start's minute of the day less the 8 hours
\* before the window, and its height is the end's minute of the day less the
\* start's, raised to 30 when it is less; 09:00-09:30 and 09:00-09:15 both
\* give top 60 and height 30; every rendered block carries these values.
C16_GridPosition ==
    /\ \A m \in Range(meetings) :
           LET from == WallMinute(ParseISO(m.start_time))
               to == WallMinute(ParseISO(m.end_time))
               pos == getMeetingPosition(m)
           IN  /\ pos.top = from - 8 * 60
               /\ pos.height = IF to - from < 30 THEN 30 ELSE to - from
               /\ pos.height >= 30
               /\ (from = 9 * 60 /\ to \in {9 * 60 + 15, 9 * 60 + 30})
                      => pos = [top |-> 60, height |-> 30]
    /\ \A c \in ColumnIndexes : \A i \in 1..Len(columns[c].blocks) :
           LET b == columns[c].blocks[i]
           IN  /\ b.top = getMeetingPosition(MeetingById(b.id)).top
               /\ b.height = getMeetingPosition(MeetingById(b.id)).height

\* The quarter-hour meeting 09:00-09:15 is drawn at top 60 with height 30.
C16_Witness ==
    \E c \in ColumnIndexes : \E i \in 1..Len(columns[c].blocks) :
        LET b == columns[c].blocks[i]
            m == MeetingById(b.id)
        IN  /\ WallMinute(ParseISO(m.start_time)) = 9 * 60
            /\ WallMinute(ParseISO(m.end_time)) = 9 * 60 + 15
            /\ b.top = 60
            /\ b.height = 30

\* C17: a meeting of a day column is rendered in it exactly when its top is
\* between 0 and 720, both included, and no step of the view changes the
\* meetings it was given.
C17_WindowExclusion ==
    /\ [](\A c \in ColumnIndexes : \A k \in 1..Len(columns[c].dayMeetings) :
             LET id == columns[c].dayMeetings[k]
                 top == WallMinute(ParseISO(MeetingById(id).start_time)) - 8 * 60
                 drawn == \E i \in 1..Len(columns[c].blocks) : columns[c].blocks[i].id = id
             IN  drawn <=> (0 <= top /\ top <= 720))
    /\ [][meetings' = meetings]_vars

\* A column whose meeting at 07:00 (top -60) is left out while the one at
\* 20:00 (top 720) is drawn, the meetings given being all still there.
C17_Witness ==
    \E c \in ColumnIndexes :
        /\ \E k \in 1..Len(columns[c].dayMeetings) :
               /\ WallMinute(ParseISO(MeetingById(columns[c].dayMeetings[k]).start_time)) = 7 * 60
               /\ \A i \in 1..Len(columns[c].blocks) :
                      columns[c].blocks[i].id # columns[c].dayMeetings[k]
        /\ \E i \in 1..Len(columns[c].blocks) : columns[c].blocks[i].top = 720
        /\ Len(meetings) = 4

\* C18: in today's column the marker is shown exactly at the times of day
\* at which a meeting starting now would be rendered, and its offset is the
\* top such a meeting would have.
C18_MarkerLikeEvent ==
    \A c \in ColumnIndexes :
        isSameDay(columns[c].day, now) =>
            LET top == WallMinute(now) - 8 * 60
            IN  /\ columns[c].marker # Null <=> (0 <= top /\ top <= 720)
                /\ columns[c].marker # Null => Val(columns[c].marker) = top

\* C19: a meeting is in a day column exactly when the calendar date of its
\* start, on the browser's wall clock, is the column's date; in the week
\* view no meeting is in two columns.
C19_ColumnOfStartDay ==
    /\ \A c \in ColumnIndexes : \A m \in Range(meetings) :
           (\E k \in 1..Len(columns[c].dayMeetings) : columns[c].dayMeetings[k] = m.id)
               <=> DayOf(LocalTime(browserTz, ParseISO(m.start_time)))
                      = DayOf(LocalTime(browserTz, columns[c].day))
    /\ \A m \in Range(meetings) :
           Cardinality({c \in ColumnIndexes :
                          \E k \in 1..Len(columns[c].dayMeetings) :
                              columns[c].dayMeetings[k] = m.id}) <= 1

\* A week with a meeting that starts before midnight and ends after it: it
\* is in the column of its start day and not in the next one.
C19_Witness ==
    /\ viewMode = "week"
    /\ \E c \in 1..(Len(columns) - 1) : \E m \in Range(meetings) :
           /\ DayOf(LocalTime(browserTz, ParseISO(m.end_time)))
                  = DayOf(LocalTime(browserTz, ParseISO(m.start_time))) + 1
           /\ \E k \in 1..Len(columns[c].dayMeetings) : columns[c].dayMeetings[k] = m.id
           /\ isSameDay(columns[c + 1].day, ParseISO(m.end_time))
           /\ \A k \in 1..Len(columns[c + 1].dayMeetings) :
                  columns[c + 1].dayMeetings[k] # m.id

\* The class a meeting has by the rule: cancelled, else past, else upcoming.
ClassOf(m) ==
    IF m.status = "cancelled" THEN "cancelled"
    ELSE IF ParseISO(m.start_time) < now THEN "past" ELSE "upcoming"
ColorOfClass(class) ==
    IF class = "cancelled" THEN "destructive"
    ELSE IF class = "past" THEN "muted" ELSE "primary"
StatusOfClass(class) ==
    IF class = "cancelled" THEN "cancelled"
    ELSE IF class = "past" THEN "completed" ELSE "scheduled"

\* C20: every meeting's colour in the calendar and derived status in the
\* list are those of its class, which depends on its stored status, its
\* start and now only.
C20_ClassificationAgrees ==
    /\ \A i \in 1..Len(listed) :
           listed[i].status = StatusOfClass(ClassOf(MeetingById(listed[i].id)))
    /\ \A c \in ColumnIndexes : \A i \in 1..Len(columns[c].blocks) :
           columns[c].blocks[i].color
               = ColorOfClass(ClassOf(MeetingById(columns[c].blocks[i].id)))
    /\ \A m \in Range(meetings) :
           getMeetingColor(m) = ColorOfClass(ClassOf(m))

\* A meeting that starts exactly now is drawn as upcoming and listed as
\* scheduled, beside a cancelled one and a past one.
C20_Witness ==
    /\ \E c \in ColumnIndexes : \E i \in 1..Len(columns[c].blocks) :
           /\ ParseISO(MeetingById(columns[c].blocks[i].id).start_time) = now
           /\ columns[c].blocks[i].color = "primary"
    /\ \E i \in 1..Len(listed) :
           /\ ParseISO(MeetingById(listed[i].id).start_time) = now
           /\ listed[i].status = "scheduled"

\* A past meeting is muted in the calendar and completed in the list.
C20_PastMeeting ==
    \E c \in ColumnIndexes : \E i \in 1..Len(columns[c].blocks) :
        /\ columns[c].blocks[i].color = "muted"
        /\ \E j \in 1..Len(listed) :
               /\ listed[j].id = columns[c].blocks[i].id
               /\ listed[j].status = "completed"

(***************************************************************************)
(* Further claims about the meeting form, checked under SpecForm.          *)
(***************************************************************************)
\* C21: when the awaited write returns, onSuccess is called and the modal is
\* closed exactly when it succeeded; when it failed the error toast is
\* shown, no write is pending again and the modal stays as it was; in both
\* cases the loading flag is false afterwards.
C21_SaveOutcome ==
    /\ [](formEv.op \in {"saved", "save_failed"} =>
             /\ ~modalLoading
             /\ pendingSave = Null
             /\ formEv.onSuccess <=> formEv.op = "saved"
             /\ formEv.toast = (IF formEv.op = "saved" THEN "Success" ELSE "Error"))
    /\ [][(pendingSave # Null /\ pendingSave' = Null) =>
             /\ formEv'.op \in {"saved", "save_failed"}
             /\ formEv'.data = Val(pendingSave)
             /\ formEv'.op = "saved" => ~open'
             /\ formEv'.op = "save_failed" => open' = open]_vars

\* The update of an edited meeting failed: the modal is still open, nothing
\* is pending and the form is no longer loading.
C21_Witness ==
    /\ formEv.op = "save_failed"
    /\ formEv.update
    /\ formEv.toast = "Error"
    /\ open
    /\ ~modalLoading
    /\ pendingSave = Null

\* C26: a stored meeting opened for editing and submitted with the date and
\* the time of day as they were loaded, and the timezone not changed since,
\* is written with the start_time it was stored with.
C26_EditUnchangedKeepsStart ==
    (/\ formEv.op = "submit"
     /\ meeting # Null
     /\ tzChanges = 0
     /\ formEv.day = LocalDay(ParseISO(Val(meeting).start_time))
     /\ formEv.time = FormatHHmm(ParseISO(Val(meeting).start_time)))
        => formEv.data.start_time = Val(meeting).start_time

(***************************************************************************)
(* A further claim about the start time picker, checked under SpecPicker.  *)
(***************************************************************************)
\* C27: for a selected date of today or later, every slot the picker offers
\* denotes, by buildISODateTime in the selected timezone, an instant
\* strictly after now.
C27_OfferedSlotsAreFuture ==
    (shown # Null /\ startDate # Null /\ LocalDay(Val(startDate)) >= LocalDay(now)) =>
        \A i \in 1..Len(Val(shown).slots) :
            ParseISO(buildISODateTime(Val(startDate), Val(shown).slots[i])) > now

(***************************************************************************)
(* Further claims about the permission cache, checked under Spec.          *)
(***************************************************************************)
\* C24: the table of a fetch that was issued before clearPermissionsCache ran
\* is not written to the permission cache when the fetch returns after it.
C24_ClearNotUndone ==
    (ev.op = "fetched" /\ ev.stale) => permissionsCache # CacheEntry(ev.table, clock)

(***************************************************************************)
(* Claims about the gate under changes of session, role and route,         *)
(* checked under SpecGate.                                                 *)
(***************************************************************************)
PageChecksInFlight == {i \in 1..Len(inflight) : inflight[i].kind = "page"}

\* C23: when a check completes and none is in flight any more, hasAccess is
\* the decision for the route and the role the hook has now.
C23_LatestCheckWins ==
    (ev.op = "fetched" /\ ev.who = "page" /\ PageChecksInFlight = {}) =>
        hasAccess = Some(Decide(ev.table, normalizedRoute(route), userRole))

\* The steps that run checkAccess up to its first await.
CheckAccessRan(e) == e.op \in {"waiting", "no_user"} \/ (e.op = "lookup" /\ e.who = "page")

\* C25: a run of checkAccess after auth and role loading finished with no
\* user sets hasAccess to false, ends the hook's loading and issues no
\* fetch, whatever the route, the role and the cache hold; a run while auth
\* or role is loading decides nothing, and the reported loading flag is true
\* for as long as either is loading.
C25_NoUserDenied ==
    /\ []((authLoading \/ roleLoading) => (ReportedLoading /\ hasAccess = Null))
    /\ []((~authLoading /\ ~roleLoading /\ ~user) =>
             (hasAccess = Some(FALSE) /\ PageChecksInFlight = {}))
    /\ [][CheckAccessRan(ev') =>
             IF authLoading' \/ roleLoading'
             THEN ev'.op = "waiting" /\ hasAccess' = hasAccess /\ inflight' = inflight
             ELSE ~user' => /\ ev'.op = "no_user"
                            /\ hasAccess' = Some(FALSE)
                            /\ ~loading'
                            /\ inflight' = inflight]_vars

\* Without a user, on a route whose cached record would admit the role, the
\* decision is false and nothing was fetched for it.
C25_Witness ==
    /\ ev.op = "no_user"
    /\ ~user
    /\ hasAccess = Some(FALSE)
    /\ permissionsCache # Null
    /\ Decide(Val(permissionsCache).data, normalizedRoute(route), userRole)
    /\ PageChecksInFlight = {}

(***************************************************************************)
(* Claims about the security provider, checked under SpecSecurity.         *)
(***************************************************************************)

\* C22: SESSION_START is logged once per session.  While a user id and a role
\* are logged in, exactly one SESSION_START has been logged since that user id
\* and role came to be logged in, whatever renders and effect runs happened
\* since; none is counted while nobody is logged in; and a step that logs
\* SESSION_START is a step in which the user id or the role changed.
C22_SessionStartOnce ==
    /\ (authUser # Null /\ secRole # Null) => sessionStarts = 1
    /\ (authUser = Null \/ secRole = Null) => sessionStarts = 0
    /\ (secEv.op # "quiet" /\ secEv.started) => ~secEv.sameSession

\* The effect ran again for a refreshed user object or a new audit function
\* while the same user id and role stayed logged in.
C22_Witness ==
    /\ secEv.op \in {"TokenRefresh", "AuditChange"}
    /\ secEv.effect
    /\ authUser # Null /\ secRole # Null
    /\ sessionStarts = 1
    /\ sessionLoggedRef = Some(sessionKey(Val(authUser), Val(secRole)))

\* C29: at most one visibilitychange listener of the provider is attached,
\* none while there is no user or no role, and the attached listener is the
\* handler created for the current user object.
C29_OneVisibilityListener ==
    /\ Len(listeners) <= 1
    /\ (authUser = Null \/ secRole = Null) => listeners = <<>>
    /\ \A i \in 1..Len(listeners) :
          /\ listeners[i] = handleVisibilityChange(authUser, logFn)
          /\ visibilityHandlerRef = Some(listeners[i])

\* A listener is attached after the user object was replaced while a listener
\* for the previous object was attached.
C29_Witness ==
    /\ secEv.op = "TokenRefresh"
    /\ secEv.effect
    /\ secRole # Null
    /\ Len(listeners) = 1
    /\ listeners[1].user = authUser
    /\ secSteps >= 3

(***************************************************************************)
(* Claims about the meetings list page, checked under SpecList.            *)
(***************************************************************************)

\* C28: bulk selection stays within the visible list.  Every id in
\* selectedMeetings is the id of a meeting in filteredMeetings, isAllSelected
\* is true exactly when there are shown meetings and each of them is selected,
\* and a bulk delete removes only meetings that were shown.
C28_SelectionWithinVisible ==
    /\ Elems(selectedMeetings) \subseteq IdsOf(filteredMeetings)
    /\ isAllSelected <=> (filteredMeetings # <<>>
                          /\ IdsOf(filteredMeetings) \subseteq Elems(selectedMeetings))
    /\ (selEv.op = "handleBulkDelete" /\ selEv.ok) => selEv.deleted \subseteq selEv.shown

(***************************************************************************)
(* Claims about the deal stage sections, checked under SpecStages.         *)
(***************************************************************************)

\* C30: toggleStage inverts what the toggled section displays and leaves what
\* every other shown section displays unchanged.
C30_ToggleInvertsDisplayed ==
    stageEv.op = "toggleStage" =>
        \A s \in Elems(stagesToShow(stage)) :
            isOpen(s) = IF s = stageEv.stageName THEN ~stageEv.before[s]
                        ELSE stageEv.before[s]

==========================================================================
